---- MODULE Spec2Model ----
(***************************************************************************)
(* A model of GiSTXConfig: the ExcelReader that compiles the rows of a     *)
(* data-dictionary worksheet into a Question list with diagnostics, and    *)
(* the GiSTXProcessor run that gates the emission of the XML documents,    *)
(* the manifest and the zip archive on the outcome of all worksheets.      *)
(*                                                                         *)
(* Cell contents are strings and are processed character by character,    *)
(* as the Python code does (split, strip, find, lower, regular            *)
(* expressions).  A log line is a record of the message template, the     *)
(* worksheet, the field and the value the f-string interpolates.          *)
(***************************************************************************)
EXTENDS Integers, Sequences, FiniteSets, TLC

VARIABLES
    pc,        \* position of GiSTXProcessor.run
    proc,      \* the GiSTXProcessor object and the files it has written
    wb,        \* the workbook: the titles of its worksheets, in order
    wsi,       \* index in the loop of run in progress (worksheets, then documents)
    rpc,       \* position of ExcelReader.create_question_list
    reader,    \* the ExcelReader object of the worksheet being read
    row_idx,   \* row_idx of the row loop of create_question_list
    cur        \* the row (or function argument) last read from the input

vars == <<pc, proc, wb, wsi, rpc, reader, row_idx, cur>>

-----------------------------------------------------------------------------
(* Python string operations *)

Min(S) == CHOOSE m \in S : \A n \in S : m <= n
Max(S) == CHOOSE m \in S : \A n \in S : m >= n

Ch(s, i) == SubSeq(s, i, i)

LowerLetters == "abcdefghijklmnopqrstuvwxyz"
UpperLetters == "ABCDEFGHIJKLMNOPQRSTUVWXYZ"
Digits == "0123456789"

InStr(c, s) == \E i \in 1..Len(s) : Ch(s, i) = c

IsDigit(c) == InStr(c, Digits)
IsLowerLetter(c) == InStr(c, LowerLetters)
IsUpperLetter(c) == InStr(c, UpperLetters)
\* str.isalnum on one character
IsAlnum(c) == IsDigit(c) \/ IsLowerLetter(c) \/ IsUpperLetter(c)
\* \w of the re module
IsWordChar(c) == IsAlnum(c) \/ c = "_"
IsSpace(c) == c \in {" ", "\t", "\n", "\r"}

LowerCh(c) ==
    IF IsUpperLetter(c)
    THEN Ch(LowerLetters, CHOOSE i \in 1..Len(UpperLetters) : Ch(UpperLetters, i) = c)
    ELSE c

\* str.lower
RECURSIVE Lower(_)
Lower(s) == IF s = "" THEN "" ELSE LowerCh(Head(s)) \o Lower(Tail(s))

\* str.startswith, str.endswith
StartsWith(s, p) == Len(s) >= Len(p) /\ SubSeq(s, 1, Len(p)) = p
EndsWith(s, p) == Len(s) >= Len(p) /\ SubSeq(s, Len(s) - Len(p) + 1, Len(s)) = p

\* str.find, 1-based; 0 when sub does not occur (Python's -1)
Find(s, sub) ==
    LET I == {i \in 1..(Len(s) - Len(sub) + 1) : SubSeq(s, i, i + Len(sub) - 1) = sub}
    IN  IF I = {} THEN 0 ELSE Min(I)

\* sub in s
Contains(s, sub) == Find(s, sub) # 0

\* str.split(sep)
RECURSIVE Split(_, _)
Split(s, sep) ==
    LET i == Find(s, sep)
    IN  IF i = 0 THEN <<s>>
        ELSE <<SubSeq(s, 1, i - 1)>> \o Split(SubSeq(s, i + Len(sep), Len(s)), sep)

\* str.split(sep, 1)
Split1(s, sep) ==
    LET i == Find(s, sep)
    IN  IF i = 0 THEN <<s>>
        ELSE <<SubSeq(s, 1, i - 1), SubSeq(s, i + Len(sep), Len(s))>>

\* str.strip()
Strip(s) ==
    LET I == {i \in 1..Len(s) : ~IsSpace(Ch(s, i))}
    IN  IF I = {} THEN "" ELSE SubSeq(s, Min(I), Max(I))

\* str.strip(chars) for a one-character chars
StripCh(s, c) ==
    LET I == {i \in 1..Len(s) : Ch(s, i) # c}
    IN  IF I = {} THEN "" ELSE SubSeq(s, Min(I), Max(I))

\* str.replace(old, new)
RECURSIVE Replace(_, _, _)
Replace(s, old, new) ==
    LET i == Find(s, old)
    IN  IF i = 0 THEN s
        ELSE SubSeq(s, 1, i - 1) \o new
                 \o Replace(SubSeq(s, i + Len(old), Len(s)), old, new)

\* [x for x in seq if x]
RECURSIVE NonEmpty(_)
NonEmpty(seq) ==
    IF seq = <<>> THEN <<>>
    ELSE (IF Head(seq) = "" THEN <<>> ELSE <<Head(seq)>>) \o NonEmpty(Tail(seq))

\* str.isdigit-only match of ^\d+$
IsDigits(s) == Len(s) >= 1 /\ \A i \in 1..Len(s) : IsDigit(Ch(s, i))

DigitVal(c) == (CHOOSE i \in 1..Len(Digits) : Ch(Digits, i) = c) - 1

\* int(s) for a digits-only s
RECURSIVE ToInt(_)
ToInt(s) ==
    IF s = "" THEN 0
    ELSE 10 * ToInt(SubSeq(s, 1, Len(s) - 1)) + DigitVal(Ch(s, Len(s)))

Range(seq) == {seq[i] : i \in 1..Len(seq)}

-----------------------------------------------------------------------------
(* ExcelReader: the object and its diagnostics *)

\* One line of a logstring: the f-string's template (kind), and what it
\* interpolates: the worksheet title, the field name and one more value.
Msg(sev, kind, ws, fld, arg) ==
    [sev |-> sev, kind |-> kind, ws |-> ws, field |-> fld, arg |-> arg]

\* ExcelReader.__init__
NewReader ==
    [logstring |-> <<>>,
     errorsEncountered |-> FALSE,
     worksheetErrorsEncountered |-> FALSE,
     questionList |-> <<>>]

\* ExcelReader._error, seeded fault: the run-level flag is not set
error_mut(r, message) ==
    [r EXCEPT !.worksheetErrorsEncountered = TRUE,
              !.logstring = Append(@, message)]

\* ExcelReader._error
error(r, message) ==
    [r EXCEPT !.errorsEncountered = TRUE,
              !.worksheetErrorsEncountered = TRUE,
              !.logstring = Append(@, message)]

Err(r, kind, ws, fld, arg) == error(r, Msg("ERROR", kind, ws, fld, arg))

\* self.logstring.append(...) of a WARNING line
Warn(r, kind, ws, fld, arg) ==
    [r EXCEPT !.logstring = Append(@, Msg("WARNING", kind, ws, fld, arg))]

\* ExcelReader._check_field_name, seeded fault: the lowercase rule is dropped
check_field_name_mut(r, worksheet, fieldname) ==
    IF fieldname = "" THEN Err(r, "FieldName.empty", worksheet, "", "")
    ELSE IF IsDigit(Ch(fieldname, 1))
         THEN Err(r, "FieldName.startsWithNumber", worksheet, fieldname, fieldname)
    ELSE IF \E i \in 1..Len(fieldname) :
                ~IsAlnum(Ch(fieldname, i)) /\ Ch(fieldname, i) # "_"
         THEN Err(r, "FieldName.invalid", worksheet, fieldname, fieldname)
    ELSE IF Ch(fieldname, 1) = "_"
         THEN Err(r, "FieldName.startsWithUnderscore", worksheet, fieldname, fieldname)
    ELSE IF Contains(fieldname, " ")
         THEN Err(r, "FieldName.containsSpace", worksheet, fieldname, fieldname)
    ELSE r

\* ExcelReader._check_field_name
check_field_name(r, worksheet, fieldname) ==
    IF fieldname = "" THEN Err(r, "FieldName.empty", worksheet, "", "")
    ELSE IF IsDigit(Ch(fieldname, 1))
         THEN Err(r, "FieldName.startsWithNumber", worksheet, fieldname, fieldname)
    ELSE IF \E i \in 1..Len(fieldname) :
                ~IsAlnum(Ch(fieldname, i)) /\ Ch(fieldname, i) # "_"
         THEN Err(r, "FieldName.invalid", worksheet, fieldname, fieldname)
    ELSE IF fieldname # Lower(fieldname)
         THEN Err(r, "FieldName.notLowercase", worksheet, fieldname, fieldname)
    ELSE IF Ch(fieldname, 1) = "_"
         THEN Err(r, "FieldName.startsWithUnderscore", worksheet, fieldname, fieldname)
    ELSE IF Contains(fieldname, " ")
         THEN Err(r, "FieldName.containsSpace", worksheet, fieldname, fieldname)
    ELSE r

-----------------------------------------------------------------------------
(* models.py *)

\* Question(): the dataclass defaults.  responseDistinct is "None", "True"
\* or "False" (bool | None).
NewQuestion ==
    [fieldName |-> "", questionType |-> "", fieldType |-> "", questionText |-> "",
     maxCharacters |-> "", responses |-> "",
     responseSourceType |-> "Static", responseSourceFile |-> "",
     responseSourceTable |-> "", responseFilters |-> <<>>,
     responseDisplayColumn |-> "", responseValueColumn |-> "",
     responseDistinct |-> "None", responseEmptyMessage |-> "",
     responseDontKnowValue |-> "", responseDontKnowLabel |-> "",
     responseNotInListValue |-> "", responseNotInListLabel |-> "",
     calculationType |-> "None", calculationQuerySql |-> "",
     calculationQueryParameters |-> <<>>, calculationCaseConditions |-> <<>>,
     calculationCaseElse |-> <<>>, calculationConstantValue |-> "",
     calculationLookupField |-> "", calculationMathOperator |-> "",
     calculationMathParts |-> <<>>, calculationConcatSeparator |-> "",
     calculationConcatParts |-> <<>>, calculationUnit |-> "",
     lowerRange |-> "", upperRange |-> "", logicChecks |-> <<>>,
     uniqueCheckMessage |-> "", dontKnow |-> "", refuse |-> "", na |-> "",
     skip |-> "", mask |-> ""]

\* CalculationPart(type=..., ...): the fields the parser sets
CalculationPart(type, constantValue, lookupField, querySql) ==
    [type |-> type, constantValue |-> constantValue,
     lookupField |-> lookupField, querySql |-> querySql]

-----------------------------------------------------------------------------
(* ExcelReader: class constants and cell access *)

COLUMN_NAMES ==
    <<"FieldName", "QuestionType", "FieldType", "QuestionText", "MaxCharacters",
      "Responses", "LowerRange", "UpperRange", "LogicCheck", "DontKnow",
      "Refuse", "NA", "Skip", "Comments">>

VALID_QUESTION_TYPES ==
    {"radio", "combobox", "checkbox", "text", "date", "information",
     "automatic", "button"}

VALID_FIELD_TYPES ==
    {"text", "datetime", "date", "phone_num", "integer", "text_integer",
     "text_decimal", "text_id", "n/a", "hourmin"}

BUILT_IN_AUTO_FIELDS ==
    {"starttime", "stoptime", "uniqueid", "swver", "survey_id", "lastmod"}

LOGIC_KEYWORDS == {"and", "or", "not"}

\* ExcelReader._split_lines: re.split(r"\r\n|\n|\r", text) without the
\* empty pieces
split_lines(text) ==
    NonEmpty(Split(Replace(Replace(text, "\r\n", "\n"), "\r", "\n"), "\n"))

\* ExcelReader._get_cell_trim on a cell holding the string v
get_cell_trim(v) == Strip(v)

\* NUMERIC_ONLY_RE.fullmatch
NUMERIC_ONLY_RE(s) == IsDigits(s)

\* DECIMAL_RE.fullmatch: ^\d+(\.\d+)?$
DECIMAL_RE(s) ==
    LET parts == Split(s, ".")
    IN  \/ Len(parts) = 1 /\ IsDigits(parts[1])
        \/ Len(parts) = 2 /\ IsDigits(parts[1]) /\ IsDigits(parts[2])

\* DATE_RANGE_RE.fullmatch: ^([+-])(\d+)([dwmy])$
DATE_RANGE_RE(s) ==
    /\ Len(s) >= 3
    /\ Ch(s, 1) \in {"+", "-"}
    /\ IsDigits(SubSeq(s, 2, Len(s) - 1))
    /\ Ch(s, Len(s)) \in {"d", "w", "m", "y"}

\* HARDCODED_DATE_RE.fullmatch: ^\d{4}-\d{2}-\d{2}$
HARDCODED_DATE_RE(s) ==
    /\ Len(s) = 10
    /\ IsDigits(SubSeq(s, 1, 4)) /\ Ch(s, 5) = "-"
    /\ IsDigits(SubSeq(s, 6, 7)) /\ Ch(s, 8) = "-"
    /\ IsDigits(SubSeq(s, 9, 10))

\* datetime.strptime(value, "%Y-%m-%d") succeeds, for a value of the
\* shape dddd-dd-dd
StrptimeOk(s) ==
    LET y == ToInt(SubSeq(s, 1, 4))
        m == ToInt(SubSeq(s, 6, 7))
        d == ToInt(SubSeq(s, 9, 10))
        leap == (y % 4 = 0 /\ y % 100 # 0) \/ y % 400 = 0
        dim == IF m \in {4, 6, 9, 11} THEN 30
               ELSE IF m = 2 THEN (IF leap THEN 29 ELSE 28) ELSE 31
    IN  y >= 1 /\ m >= 1 /\ m <= 12 /\ d >= 1 /\ d <= dim

-----------------------------------------------------------------------------
(* ExcelReader: the per-row checks.  Each takes the reader r and returns  *)
(* the reader after the call.                                              *)

\* ExcelReader._check_max_chars_value
check_max_chars_value(r, worksheet, max_chars, fieldname) ==
    LET numeric == IF StartsWith(max_chars, "=")
                   THEN SubSeq(max_chars, 2, Len(max_chars)) ELSE max_chars
    IN  IF ~NUMERIC_ONLY_RE(numeric)
        THEN Err(r, "MaxCharacters.nonNumeric", worksheet, fieldname, max_chars)
        ELSE IF ToInt(numeric) < 1 \/ ToInt(numeric) > 2000
        THEN Err(r, "MaxCharacters.outOfRange", worksheet, fieldname, max_chars)
        ELSE r

\* ExcelReader._check_numeric_range
check_numeric_range(r, worksheet, value, fieldname, range_name) ==
    IF ~DECIMAL_RE(value)
    THEN Err(r, range_name \o ".nonNumeric", worksheet, fieldname, value)
    ELSE r

\* ExcelReader._check_date_range
check_date_range(r, worksheet, value, fieldname, range_name) ==
    IF value = "-9"
    THEN Err(r, range_name \o ".missing", worksheet, fieldname, "")
    ELSE IF value \in {"0", "+0d", "-0d"} THEN r
    ELSE IF DATE_RANGE_RE(value) THEN r
    ELSE IF HARDCODED_DATE_RE(value)
    THEN (IF StrptimeOk(value) THEN r
          ELSE Err(r, range_name \o ".invalidDate", worksheet, fieldname, value))
    ELSE Err(r, range_name \o ".invalidFormat", worksheet, fieldname, value)

\* ExcelReader._check_logic_check_syntax
check_logic_check_syntax(r, worksheet, logic_check, fieldname) ==
    IF ~Contains(logic_check, ";")
    THEN Err(r, "LogicCheck.missingSemicolon", worksheet, fieldname, logic_check)
    ELSE
    LET parts == Split1(logic_check, ";")
        expression == Strip(parts[1])
        message == Strip(parts[2])
        operators == {"=", "!=", "<>", ">", ">=", "<", "<=", "and", "or"}
    IN  IF ~(StartsWith(message, "'") /\ EndsWith(message, "'"))
        THEN Err(r, "LogicCheck.messageNotQuoted", worksheet, fieldname, logic_check)
        ELSE IF ~\E op \in operators : Contains(expression, op)
        THEN Err(r, "LogicCheck.noOperator", worksheet, fieldname, logic_check)
        ELSE r

\* ExcelReader._check_special_button
check_special_button(r, worksheet, value, fieldname, button_name) ==
    IF value \notin {"True", "False"}
    THEN Err(r, button_name \o ".invalid", worksheet, fieldname, value)
    ELSE r

\* the indices (1-based) of the spaces of skip:
\* [i for i, ch in enumerate(skip) if ch == " "]
space_indices(skip) ==
    LET I == {i \in 1..Len(skip) : Ch(skip, i) = " "}
        RECURSIVE sorted(_)
        sorted(S) == IF S = {} THEN <<>> ELSE <<Min(S)>> \o sorted(S \ {Min(S)})
    IN  sorted(I)

\* the body of the loop of ExcelReader._check_skip_syntax for one line:
\* TRUE when the line is accepted
skip_line_ok(skip) ==
    LET colon == Find(skip, ":")
        skip_type == IF SubSeq(skip, 1, colon - 1) = "preskip"
                     THEN "preskip" ELSE "postskip"
        parts == Split(skip, ",")
        len_skip == IF skip_type = "postskip" THEN 13 ELSE 12
        logic_section == parts[1]
        logic_string == Split(logic_section, ":")
        logic_tokens == Split(logic_section, " ")
        dnc == Contains(logic_section, "does not contain")
        sp == space_indices(skip)
        \* skip[len_skip : space_indices[2]] (0-based, end exclusive)
        fieldname_to_check == SubSeq(skip, len_skip + 1, sp[3] - 1)
        condition == SubSeq(skip, sp[3] + 1, sp[4] - 1)
    IN  /\ colon # 0
        /\ skip_type \in {"preskip", "postskip"}
        /\ Len(parts) = 2
        /\ Len(logic_string) = 2
        /\ ~(Len(logic_tokens) # 5 /\ ~dnc)
        /\ ~(Len(logic_tokens) # 7 /\ dnc)
        /\ Len(sp) >= 4
        /\ ~Contains(fieldname_to_check, " ")
        /\ (~dnc => condition \in {"=", ">", ">=", "<", "<=", "<>", "'contains'"})

\* ExcelReader._check_skip_syntax: the first rejected line is reported and
\* ends the check
check_skip_syntax(r, worksheet, skip_text, fieldname) ==
    LET skips == split_lines(skip_text)
        bad == {i \in 1..Len(skips) : ~skip_line_ok(skips[i])}
    IN  IF bad = {} THEN r
        ELSE LET skip == skips[Min(bad)]
                 sp == space_indices(skip)
                 \* the last test of the loop body words its message differently
                 last == /\ Find(skip, ":") # 0 /\ Len(Split(skip, ",")) = 2
                         /\ Len(Split(Split(skip, ",")[1], ":")) = 2
                         /\ Len(Split(Split(skip, ",")[1], " ")) = 5
                         /\ ~Contains(Split(skip, ",")[1], "does not contain")
                         /\ Len(sp) >= 4
                         /\ ~Contains(SubSeq(skip,
                                (IF SubSeq(skip, 1, Find(skip, ":") - 1) = "preskip"
                                 THEN 12 ELSE 13) + 1, sp[3] - 1), " ")
             IN  Err(r, IF last THEN "Skip.invalidCondition" ELSE "Skip.invalidSyntax",
                     worksheet, fieldname, skip)

-----------------------------------------------------------------------------
(* ExcelReader: the directive parsers.  A context c holds the reader      *)
(* (c.r) and the Question being built (c.q).                               *)

Ctx(r, q) == [r |-> r, q |-> q]

\* ExcelReader._parse_operator
parse_operator(op0) ==
    LET op == Strip(op0)
    IN  IF op = ">" THEN "&gt;"
        ELSE IF op = "<" THEN "&lt;"
        ELSE IF op = ">=" THEN "&gt;="
        ELSE IF op = "<=" THEN "&lt;="
        ELSE IF op \in {"=", "!=", "<>"} THEN op
        ELSE "="

\* the alternatives of the operator group of FILTER_MATCH_RE, in the order
\* the pattern lists them
FILTER_OPERATORS == <<"=", "!=", "<>", ">", "<", ">=", "<=">>

\* the length of the longest prefix of s made of \w characters
RECURSIVE WordPrefix(_)
WordPrefix(s) ==
    IF s = "" \/ ~IsWordChar(Head(s)) THEN 0 ELSE 1 + WordPrefix(Tail(s))

\* the length of the longest prefix of s made of \s characters
RECURSIVE SpacePrefix(_)
SpacePrefix(s) ==
    IF s = "" \/ ~IsSpace(Head(s)) THEN 0 ELSE 1 + SpacePrefix(Tail(s))

\* FILTER_MATCH_RE.match(value), ^(\w+)\s*(?:(=|!=|<>|>|<|>=|<=)\s*)?(.+)$,
\* as the backtracking matcher finds it: the groups 1, 2 ("" for None), 3
FILTER_MATCH_RE(value) ==
    LET n == WordPrefix(value)
        rest == SubSeq(value, n + 1, Len(value))
        m == SpacePrefix(rest)
        tail == SubSeq(rest, m + 1, Len(rest))
        \* the first alternative that matches with a character left for (.+)
        I == {i \in 1..Len(FILTER_OPERATORS) :
                 /\ StartsWith(tail, FILTER_OPERATORS[i])
                 /\ Len(tail) > Len(FILTER_OPERATORS[i])}
    IN  IF n = 0 THEN [ok |-> FALSE, g1 |-> "", g2 |-> "", g3 |-> ""]
        ELSE IF I # {}
        THEN LET op == FILTER_OPERATORS[Min(I)]
                 after == SubSeq(tail, Len(op) + 1, Len(tail))
                 \* \s* is greedy but leaves one character to (.+)
                 k == IF SpacePrefix(after) = Len(after)
                      THEN Len(after) - 1 ELSE SpacePrefix(after)
             IN  [ok |-> TRUE, g1 |-> SubSeq(value, 1, n), g2 |-> op,
                  g3 |-> SubSeq(after, k + 1, Len(after))]
        ELSE IF tail # ""
        THEN [ok |-> TRUE, g1 |-> SubSeq(value, 1, n), g2 |-> "", g3 |-> tail]
        ELSE IF m >= 1
        THEN [ok |-> TRUE, g1 |-> SubSeq(value, 1, n), g2 |-> "",
              g3 |-> SubSeq(rest, m, m)]
        ELSE IF n >= 2
        THEN [ok |-> TRUE, g1 |-> SubSeq(value, 1, n - 1), g2 |-> "",
              g3 |-> SubSeq(value, n, n)]
        ELSE [ok |-> FALSE, g1 |-> "", g2 |-> "", g3 |-> ""]

\* Filter(column=..., operator=..., value=...)
Filter(column, operator, value) ==
    [column |-> column, operator |-> operator, value |-> value]

\* the else branch of the key dispatch of _parse_dynamic_responses, seeded
\* fault: the unknown key is reported as an error
unknown_response_key_mut(r, key, worksheet, fieldname) ==
    Err(r, "Responses.unknownKey", worksheet, fieldname, key)

\* the else branch of the key dispatch of _parse_dynamic_responses
unknown_response_key(r, key, worksheet, fieldname) ==
    Warn(r, "Responses.unknownKey", worksheet, fieldname, key)

\* the body of the line loop of ExcelReader._parse_dynamic_responses
dynamic_response_line(c, line, worksheet, fieldname) ==
    LET trimmed == Strip(line)
        parts == Split1(trimmed, ":")
        key == Lower(Strip(parts[1]))
        value == Strip(parts[2])
        lowered == Lower(value)
        match == FILTER_MATCH_RE(value)
        vparts == Split1(value, ",")
        q == c.q
        r == c.r
    IN  IF trimmed = "" THEN c
        ELSE IF Len(parts) # 2
        THEN Ctx(Err(r, "Responses.invalidLine", worksheet, fieldname, trimmed), q)
        ELSE IF key = "source"
        THEN (IF lowered = "csv" THEN Ctx(r, [q EXCEPT !.responseSourceType = "Csv"])
              ELSE IF lowered = "database"
              THEN Ctx(r, [q EXCEPT !.responseSourceType = "Database"])
              ELSE Ctx(Err(r, "Responses.invalidSource", worksheet, fieldname, value), q))
        ELSE IF key = "file" THEN Ctx(r, [q EXCEPT !.responseSourceFile = value])
        ELSE IF key = "table" THEN Ctx(r, [q EXCEPT !.responseSourceTable = value])
        ELSE IF key = "filter"
        THEN (IF match.ok
              THEN Ctx(r, [q EXCEPT !.responseFilters =
                      Append(@, Filter(Strip(match.g1),
                                       parse_operator(IF match.g2 # "" THEN match.g2
                                                      ELSE "="),
                                       Strip(match.g3)))])
              ELSE Ctx(Err(r, "Responses.invalidFilter", worksheet, fieldname, value), q))
        ELSE IF key = "display" THEN Ctx(r, [q EXCEPT !.responseDisplayColumn = value])
        ELSE IF key = "value" THEN Ctx(r, [q EXCEPT !.responseValueColumn = value])
        ELSE IF key = "distinct"
        THEN (IF lowered = "true" THEN Ctx(r, [q EXCEPT !.responseDistinct = "True"])
              ELSE IF lowered = "false"
              THEN Ctx(r, [q EXCEPT !.responseDistinct = "False"])
              ELSE Ctx(Err(r, "Responses.invalidDistinct", worksheet, fieldname, value), q))
        ELSE IF key = "empty_message"
        THEN Ctx(r, [q EXCEPT !.responseEmptyMessage = value])
        ELSE IF key = "dont_know"
        THEN Ctx(r, [q EXCEPT !.responseDontKnowValue = Strip(vparts[1]),
                              !.responseDontKnowLabel =
                                  IF Len(vparts) > 1 THEN Strip(vparts[2]) ELSE @])
        ELSE IF key = "not_in_list"
        THEN Ctx(r, [q EXCEPT !.responseNotInListValue = Strip(vparts[1]),
                              !.responseNotInListLabel =
                                  IF Len(vparts) > 1 THEN Strip(vparts[2]) ELSE @])
        ELSE Ctx(unknown_response_key(r, key, worksheet, fieldname), q)

RECURSIVE dynamic_response_lines(_, _, _, _)
dynamic_response_lines(c, lines, worksheet, fieldname) ==
    IF lines = <<>> THEN c
    ELSE dynamic_response_lines(
             dynamic_response_line(c, Head(lines), worksheet, fieldname),
             Tail(lines), worksheet, fieldname)

\* ExcelReader._parse_dynamic_responses
parse_dynamic_responses(c, responses, worksheet, fieldname) ==
    dynamic_response_lines(c, split_lines(responses), worksheet, fieldname)

\* PARAMETER_RE.match(param_str), ^(@?\w+)\s*=\s*(\w+)$
PARAMETER_RE(param_str) ==
    LET a == IF StartsWith(param_str, "@") THEN 1 ELSE 0
        n == WordPrefix(SubSeq(param_str, a + 1, Len(param_str)))
        s1 == SubSeq(param_str, a + n + 1, Len(param_str))
        s2 == SubSeq(s1, SpacePrefix(s1) + 1, Len(s1))
        s3 == SubSeq(s2, 2, Len(s2))
        s4 == SubSeq(s3, SpacePrefix(s3) + 1, Len(s3))
    IN  IF n >= 1 /\ StartsWith(s2, "=") /\ s4 # "" /\ WordPrefix(s4) = Len(s4)
        THEN [ok |-> TRUE, g1 |-> SubSeq(param_str, 1, a + n), g2 |-> s4]
        ELSE [ok |-> FALSE, g1 |-> "", g2 |-> ""]

\* the alternatives of the operator group of WHEN_CONDITION_RE
WHEN_OPERATORS == {"=", "!=", "<>", ">=", "<=", ">", "<"}

\* the rest of a WHEN_CONDITION_RE match after the operator group: s2 is
\* the text after the operator, sp the spaces \s+ takes and j the length
\* (.+?) takes; TRUE when \s*=>\s*(.+)$ matches what follows
WhenTail(s2, sp, j) ==
    LET t == SubSeq(s2, sp + j + 1, Len(s2))
    IN  SubSeq(t, SpacePrefix(t) + 1, Len(t))

WhenTailOk(s2, sp, j) ==
    /\ sp + j <= Len(s2)
    /\ StartsWith(WhenTail(s2, sp, j), "=>")
    /\ Len(WhenTail(s2, sp, j)) > 2

\* the groups of a WHEN_CONDITION_RE match, given the word g1, the
\* operator op and the text s2 after it; good holds the splits <<sp, j>>
\* that match: \s+ is greedy, (.+?) is lazy
WhenGroups(g1, op, s2, good) ==
    LET sp == Max({p[1] : p \in good})
        j == Min({p[2] : p \in {x \in good : x[1] = sp}})
        rest == WhenTail(s2, sp, j)
    IN  IF good # {}
        THEN [ok |-> TRUE, g1 |-> g1, g2 |-> op, g3 |-> SubSeq(s2, sp + 1, sp + j),
              g4 |-> Strip(SubSeq(rest, 3, Len(rest)))]
        ELSE [ok |-> FALSE, g1 |-> "", g2 |-> "", g3 |-> "", g4 |-> ""]

WhenAfterOperator(g1, op, s2) ==
    WhenGroups(g1, op, s2,
               {p \in (1..SpacePrefix(s2)) \X (1..Len(s2)) : WhenTailOk(s2, p[1], p[2])})

\* the operator group of WHEN_CONDITION_RE on tail; the alternative that
\* matches is the one followed by a space
WhenOperator(g1, tail, ops) ==
    IF g1 # "" /\ ops # {}
    THEN WhenAfterOperator(g1, CHOOSE o \in ops : TRUE,
                           SubSeq(tail, Len(CHOOSE o \in ops : TRUE) + 1, Len(tail)))
    ELSE [ok |-> FALSE, g1 |-> "", g2 |-> "", g3 |-> "", g4 |-> ""]

WhenAfterWord(g1, s1) ==
    IF SpacePrefix(s1) = 0
    THEN [ok |-> FALSE, g1 |-> "", g2 |-> "", g3 |-> "", g4 |-> ""]
    ELSE LET tail == SubSeq(s1, SpacePrefix(s1) + 1, Len(s1))
         IN  WhenOperator(g1, tail,
                          {o \in WHEN_OPERATORS :
                              /\ StartsWith(tail, o) /\ Len(tail) > Len(o)
                              /\ IsSpace(Ch(tail, Len(o) + 1))})

\* WHEN_CONDITION_RE.match(when_str),
\* ^(\w+)\s+(=|!=|<>|>=|<=|>|<)\s+(.+?)\s*=>\s*(.+)$
WHEN_CONDITION_RE(when_str) ==
    WhenAfterWord(SubSeq(when_str, 1, WordPrefix(when_str)),
                  SubSeq(when_str, WordPrefix(when_str) + 1, Len(when_str)))

\* ExcelReader._parse_result_value
parse_result_value(value) == CalculationPart("Constant", value, "", "")

\* the body of _parse_parameter once the pattern has been applied
parameter(c, match, param_str, worksheet, fieldname) ==
    LET name0 == Strip(match.g1)
    IN  IF ~match.ok
        THEN Ctx(Err(c.r, "Calculation.invalidParameter", worksheet, fieldname, param_str),
                 c.q)
        ELSE Ctx(c.r, [c.q EXCEPT !.calculationQueryParameters =
                          Append(@, [name |-> IF StartsWith(name0, "@") THEN name0
                                              ELSE "@" \o name0,
                                     fieldName |-> Strip(match.g2)])])

\* ExcelReader._parse_parameter
parse_parameter(c, param_str, worksheet, fieldname) ==
    parameter(c, PARAMETER_RE(param_str), param_str, worksheet, fieldname)

\* the body of _parse_when_condition once the pattern has been applied
when_condition(c, match, when_str, worksheet, fieldname) ==
    IF ~match.ok
    THEN Ctx(Err(c.r, "Calculation.invalidWhen", worksheet, fieldname, when_str), c.q)
    ELSE Ctx(c.r, [c.q EXCEPT !.calculationCaseConditions =
                      Append(@, [field |-> Strip(match.g1),
                                 operator |-> Strip(match.g2),
                                 value |-> Strip(match.g3),
                                 result |-> parse_result_value(Strip(match.g4))])])

\* ExcelReader._parse_when_condition
parse_when_condition(c, when_str, worksheet, fieldname) ==
    when_condition(c, WHEN_CONDITION_RE(when_str), when_str, worksheet, fieldname)

\* ExcelReader._parse_part_line: the reader after the call and the part,
\* <<>> for None
parse_part_line(r, part_line, worksheet, fieldname) ==
    LET words == Split1(part_line, " ")
        part_type == Lower(Strip(words[1]))
        part_value == Strip(words[2])
    IN  IF Len(words) < 2
        THEN [r |-> Err(r, "Calculation.invalidPartFormat", worksheet, fieldname, part_line),
              part |-> <<>>]
        ELSE IF part_type = "constant"
        THEN [r |-> r, part |-> <<CalculationPart("Constant", part_value, "", "")>>]
        ELSE IF part_type = "lookup"
        THEN [r |-> r, part |-> <<CalculationPart("Lookup", "", part_value, "")>>]
        ELSE IF part_type = "query"
        THEN [r |-> r, part |-> <<CalculationPart("Query", "", "", part_value)>>]
        ELSE [r |-> Err(r, "Calculation.invalidPartType", worksheet, fieldname, part_type),
              part |-> <<>>]

\* the mapping of calc: values to CalculationType in
\* _parse_automatic_calculation
CalcMapping ==
    [query |-> "Query", case |-> "Case", constant |-> "Constant",
     lookup |-> "Lookup", math |-> "Math", concat |-> "Concat",
     age_from_date |-> "AgeFromDate", age_at_date |-> "AgeAtDate",
     date_offset |-> "DateOffset", date_diff |-> "DateDiff"]

\* the else branch of the key dispatch of _parse_automatic_calculation,
\* seeded fault: the unknown key is reported as an error
unknown_calculation_key_mut(r, key, worksheet, fieldname) ==
    Err(r, "Calculation.unknownKey", worksheet, fieldname, key)

\* the else branch of the key dispatch of _parse_automatic_calculation
unknown_calculation_key(r, key, worksheet, fieldname) ==
    Warn(r, "Calculation.unknownKey", worksheet, fieldname, key)

\* the body of the line loop of ExcelReader._parse_automatic_calculation;
\* st holds r, q and the locals current_calc, when_lines, part_lines
calculation_line(st, line, worksheet, fieldname) ==
    LET trimmed == Strip(line)
        parts == Split1(trimmed, ":")
        key == Lower(Strip(parts[1]))
        value == Strip(parts[2])
        q == st.q
        r == st.r
        cc == st.current_calc
        setq(q2) == [st EXCEPT !.q = q2]
        setc(c2) == [st EXCEPT !.r = c2.r, !.q = c2.q]
    IN  IF trimmed = "" THEN st
        ELSE IF Len(parts) # 2
        THEN [st EXCEPT !.r = Err(r, "Calculation.invalidLine", worksheet, fieldname,
                                  trimmed)]
        ELSE IF key = "calc"
        THEN (IF Lower(value) \in DOMAIN CalcMapping
              THEN [st EXCEPT !.current_calc = Lower(value),
                              !.q.calculationType = CalcMapping[Lower(value)]]
              ELSE [st EXCEPT !.current_calc = Lower(value),
                              !.r = Err(r, "Calculation.invalidType", worksheet,
                                        fieldname, value)])
        ELSE IF key = "sql" THEN setq([q EXCEPT !.calculationQuerySql = value])
        ELSE IF key = "param"
        THEN setc(parse_parameter(Ctx(r, q), value, worksheet, fieldname))
        ELSE IF key = "when" THEN [st EXCEPT !.when_lines = Append(@, value)]
        ELSE IF key = "else"
        THEN (IF cc = "case"
              THEN setq([q EXCEPT !.calculationCaseElse = <<parse_result_value(value)>>])
              ELSE st)
        ELSE IF key = "value"
        THEN (IF cc \in {"constant", "age_from_date", "age_at_date", "date_offset",
                         "date_diff"}
              THEN setq([q EXCEPT !.calculationConstantValue = value]) ELSE st)
        ELSE IF key = "field"
        THEN (IF cc \in {"lookup", "age_from_date", "age_at_date", "date_offset",
                         "date_diff"}
              THEN setq([q EXCEPT !.calculationLookupField = value]) ELSE st)
        ELSE IF key = "unit"
        THEN (IF cc = "date_diff" THEN setq([q EXCEPT !.calculationUnit = value])
              ELSE st)
        ELSE IF key = "operator"
        THEN (IF cc = "math"
              THEN (IF value \in {"+", "-", "*", "/"}
                    THEN setq([q EXCEPT !.calculationMathOperator = value])
                    ELSE [st EXCEPT !.r = Err(r, "Calculation.invalidOperator",
                                              worksheet, fieldname, value)])
              ELSE st)
        ELSE IF key = "separator"
        THEN (IF cc \in {"concat", "age_at_date"}
              THEN setq([q EXCEPT !.calculationConcatSeparator = value]) ELSE st)
        ELSE IF key = "part" THEN [st EXCEPT !.part_lines = Append(@, value)]
        ELSE [st EXCEPT !.r = unknown_calculation_key(r, key, worksheet, fieldname)]

RECURSIVE calculation_lines(_, _, _, _)
calculation_lines(st, lines, worksheet, fieldname) ==
    IF lines = <<>> THEN st
    ELSE calculation_lines(calculation_line(st, Head(lines), worksheet, fieldname),
                           Tail(lines), worksheet, fieldname)

RECURSIVE when_conditions(_, _, _, _)
when_conditions(c, when_lines, worksheet, fieldname) ==
    IF when_lines = <<>> THEN c
    ELSE when_conditions(parse_when_condition(c, Head(when_lines), worksheet, fieldname),
                         Tail(when_lines), worksheet, fieldname)

\* the loop over part_lines of _parse_automatic_calculation, seeded fault:
\* a part line that fails to parse still adds a part
RECURSIVE calculation_parts_mut(_, _, _, _, _)
calculation_parts_mut(c, part_lines, current_calc, worksheet, fieldname) ==
    IF part_lines = <<>> THEN c
    ELSE LET res == parse_part_line(c.r, Head(part_lines), worksheet, fieldname)
             part == IF res.part = <<>>
                     THEN <<CalculationPart("Constant", "", "", "")>> ELSE res.part
             q2 == IF current_calc = "math"
                   THEN [c.q EXCEPT !.calculationMathParts = @ \o part]
                   ELSE [c.q EXCEPT !.calculationConcatParts = @ \o part]
         IN  calculation_parts_mut(Ctx(res.r, q2), Tail(part_lines), current_calc,
                                   worksheet, fieldname)

\* the loop over part_lines of _parse_automatic_calculation
RECURSIVE calculation_parts(_, _, _, _, _)
calculation_parts(c, part_lines, current_calc, worksheet, fieldname) ==
    IF part_lines = <<>> THEN c
    ELSE LET res == parse_part_line(c.r, Head(part_lines), worksheet, fieldname)
             q2 == IF res.part = <<>> THEN c.q
                   ELSE IF current_calc = "math"
                   THEN [c.q EXCEPT !.calculationMathParts = @ \o res.part]
                   ELSE [c.q EXCEPT !.calculationConcatParts = @ \o res.part]
         IN  calculation_parts(Ctx(res.r, q2), Tail(part_lines), current_calc,
                               worksheet, fieldname)

\* r after each of the tests of a list, in order: a test is <<failed, kind, arg>>
RECURSIVE ErrAll(_, _, _, _)
ErrAll(r, tests, worksheet, fieldname) ==
    IF tests = <<>> THEN r
    ELSE ErrAll(IF Head(tests)[1]
                THEN Err(r, Head(tests)[2], worksheet, fieldname, Head(tests)[3])
                ELSE r,
                Tail(tests), worksheet, fieldname)

\* ExcelReader._validate_calculation_fields, seeded fault: the unit of a
\* DateDiff is compared as written
validate_calculation_fields_mut(r, question, worksheet, fieldname) ==
    LET ctype == question.calculationType
        noField == question.calculationLookupField = ""
        noValue == question.calculationConstantValue = ""
        noUnit == question.calculationUnit = ""
    IN  IF ctype = "Query"
        THEN ErrAll(r, <<<<question.calculationQuerySql = "", "Query.missingSql", "">>>>,
                    worksheet, fieldname)
        ELSE IF ctype = "Case"
        THEN ErrAll(r, <<<<Len(question.calculationCaseConditions) = 0,
                           "Case.missingWhen", "">>>>, worksheet, fieldname)
        ELSE IF ctype = "Constant"
        THEN ErrAll(r, <<<<noValue, "Constant.missingValue", "">>>>, worksheet, fieldname)
        ELSE IF ctype = "Lookup"
        THEN ErrAll(r, <<<<noField, "Lookup.missingField", "">>>>, worksheet, fieldname)
        ELSE IF ctype = "Math"
        THEN ErrAll(r, << <<question.calculationMathOperator = "",
                            "Math.missingOperator", "">>,
                          <<Len(question.calculationMathParts) < 2,
                            "Math.fewerThan2Parts", "">> >>, worksheet, fieldname)
        ELSE IF ctype = "Concat"
        THEN ErrAll(r, <<<<Len(question.calculationConcatParts) = 0,
                           "Concat.noParts", "">>>>, worksheet, fieldname)
        ELSE IF ctype = "AgeFromDate"
        THEN ErrAll(r, << <<noField, "AgeFromDate.missingField", "">>,
                          <<noValue, "AgeFromDate.missingValue", "">> >>,
                    worksheet, fieldname)
        ELSE IF ctype = "AgeAtDate"
        THEN ErrAll(r, << <<noField, "AgeAtDate.missingField", "">>,
                          <<noValue, "AgeAtDate.missingValue", "">> >>,
                    worksheet, fieldname)
        ELSE IF ctype = "DateOffset"
        THEN ErrAll(r, << <<noField, "DateOffset.missingField", "">>,
                          <<noValue, "DateOffset.missingValue", "">>,
                          <<~noValue /\ ~DATE_RANGE_RE(question.calculationConstantValue),
                            "DateOffset.invalidValue",
                            question.calculationConstantValue>> >>,
                    worksheet, fieldname)
        ELSE IF ctype = "DateDiff"
        THEN ErrAll(r, << <<noField, "DateDiff.missingField", "">>,
                          <<noValue, "DateDiff.missingValue", "">>,
                          <<noUnit, "DateDiff.missingUnit", "">>,
                          <<~noUnit /\ question.calculationUnit \notin {"d", "w", "m", "y"},
                            "DateDiff.invalidUnit", question.calculationUnit>> >>,
                    worksheet, fieldname)
        ELSE r

\* ExcelReader._validate_calculation_fields
validate_calculation_fields(r, question, worksheet, fieldname) ==
    LET ctype == question.calculationType
        noField == question.calculationLookupField = ""
        noValue == question.calculationConstantValue = ""
        noUnit == question.calculationUnit = ""
    IN  IF ctype = "Query"
        THEN ErrAll(r, <<<<question.calculationQuerySql = "", "Query.missingSql", "">>>>,
                    worksheet, fieldname)
        ELSE IF ctype = "Case"
        THEN ErrAll(r, <<<<Len(question.calculationCaseConditions) = 0,
                           "Case.missingWhen", "">>>>, worksheet, fieldname)
        ELSE IF ctype = "Constant"
        THEN ErrAll(r, <<<<noValue, "Constant.missingValue", "">>>>, worksheet, fieldname)
        ELSE IF ctype = "Lookup"
        THEN ErrAll(r, <<<<noField, "Lookup.missingField", "">>>>, worksheet, fieldname)
        ELSE IF ctype = "Math"
        THEN ErrAll(r, << <<question.calculationMathOperator = "",
                            "Math.missingOperator", "">>,
                          <<Len(question.calculationMathParts) < 2,
                            "Math.fewerThan2Parts", "">> >>, worksheet, fieldname)
        ELSE IF ctype = "Concat"
        THEN ErrAll(r, <<<<Len(question.calculationConcatParts) = 0,
                           "Concat.noParts", "">>>>, worksheet, fieldname)
        ELSE IF ctype = "AgeFromDate"
        THEN ErrAll(r, << <<noField, "AgeFromDate.missingField", "">>,
                          <<noValue, "AgeFromDate.missingValue", "">> >>,
                    worksheet, fieldname)
        ELSE IF ctype = "AgeAtDate"
        THEN ErrAll(r, << <<noField, "AgeAtDate.missingField", "">>,
                          <<noValue, "AgeAtDate.missingValue", "">> >>,
                    worksheet, fieldname)
        ELSE IF ctype = "DateOffset"
        THEN ErrAll(r, << <<noField, "DateOffset.missingField", "">>,
                          <<noValue, "DateOffset.missingValue", "">>,
                          <<~noValue /\ ~DATE_RANGE_RE(question.calculationConstantValue),
                            "DateOffset.invalidValue",
                            question.calculationConstantValue>> >>,
                    worksheet, fieldname)
        ELSE IF ctype = "DateDiff"
        THEN ErrAll(r, << <<noField, "DateDiff.missingField", "">>,
                          <<noValue, "DateDiff.missingValue", "">>,
                          <<noUnit, "DateDiff.missingUnit", "">>,
                          <<~noUnit /\ Lower(question.calculationUnit)
                                           \notin {"d", "w", "m", "y"},
                            "DateDiff.invalidUnit", question.calculationUnit>> >>,
                    worksheet, fieldname)
        ELSE r

\* the end of _parse_automatic_calculation, seeded fault: no validation
calculation_validated_mut(c, worksheet, fieldname) == Ctx(c.r, c.q)

\* the end of _parse_automatic_calculation: the required-field validation
calculation_validated(c, worksheet, fieldname) ==
    Ctx(validate_calculation_fields(c.r, c.q, worksheet, fieldname), c.q)

\* _parse_automatic_calculation after the line loop: the when lines of a
\* case block, then the part lines of a math or concat block
calculation_collected(st, worksheet, fieldname) ==
    LET c0 == Ctx(st.r, st.q)
    IN  IF st.current_calc = "case"
        THEN calculation_validated(
                 when_conditions(c0, st.when_lines, worksheet, fieldname),
                 worksheet, fieldname)
        ELSE IF st.current_calc \in {"math", "concat"}
        THEN calculation_validated(
                 calculation_parts(c0, st.part_lines, st.current_calc,
                                   worksheet, fieldname),
                 worksheet, fieldname)
        ELSE calculation_validated(c0, worksheet, fieldname)

\* ExcelReader._parse_automatic_calculation
parse_automatic_calculation(c, responses, worksheet, fieldname) ==
    calculation_collected(
        calculation_lines([r |-> c.r, q |-> c.q, current_calc |-> "",
                           when_lines |-> <<>>, part_lines |-> <<>>],
                          split_lines(responses), worksheet, fieldname),
        worksheet, fieldname)

\* the loop over the static responses in _check_question_field_type:
\* the kind of the first error found, "" when there is none
RECURSIVE static_responses(_, _)
static_responses(responses, seen) ==
    IF responses = <<>> THEN ""
    ELSE LET response == Head(responses)
             index == Find(response, ":")
             key == SubSeq(response, 1, index - 1)
         IN  IF index = 0 THEN "Responses.invalidStatic"
             ELSE IF Len(Split(response, ":")) # 2 THEN "Responses.invalidStatic"
             ELSE IF key \in seen THEN "Responses.duplicates"
             ELSE IF StartsWith(response, " ") THEN "Responses.leadingSpace"
             ELSE IF Contains(response, ": ") THEN "Responses.spaceAfterColon"
             ELSE static_responses(Tail(responses), seen \cup {key})

\* ExcelReader._check_question_field_type
check_question_field_type(r, q, worksheet) ==
    LET questiontype == q.questionType
        fieldtype == q.fieldType
        r5 == ErrAll(r,
                << <<questiontype \notin VALID_QUESTION_TYPES,
                     "QuestionType.notPredefined", questiontype>>,
                   <<fieldtype \notin VALID_FIELD_TYPES,
                     "FieldType.notPredefined", fieldtype>>,
                   <<questiontype = "radio" /\ fieldtype # "integer",
                     "FieldType.radioNotInteger", "">>,
                   <<questiontype = "checkbox" /\ fieldtype # "text",
                     "FieldType.checkboxNotText", "">>,
                   <<questiontype = "date" /\ fieldtype \notin {"date", "datetime"},
                     "FieldType.dateNotDate", "">> >>,
                worksheet, q.fieldName)
        bad == static_responses(split_lines(q.responses), {})
    IN  IF /\ questiontype \in {"radio", "checkbox"}
           /\ q.responseSourceType = "Static" /\ q.responses # ""
           /\ bad # ""
        THEN Err(r5, bad, worksheet, q.fieldName, "")
        ELSE r5

-----------------------------------------------------------------------------
(* ExcelReader.create_question_list: the body of the row loop.  A row is  *)
(* a record of the strings its cells hold; row.merged tells whether       *)
(* column 14 lies in a merged range, and row.raises names the column      *)
(* whose cell access raises an exception (0: none).                        *)

\* c with the reader and the Question of the context c2
set_ctx(c, c2) == [c EXCEPT !.r = c2.r, !.q = c2.q]

\* the dispatch on the Responses cell, seeded fault: a calc: cell is parsed
\* whatever the field name and the question type
responses_cell_mut(r, q, raw_responses, title) ==
    LET raw_stripped == Strip(raw_responses)
        lowered == Lower(raw_stripped)
    IN  IF StartsWith(lowered, "source:")
        THEN parse_dynamic_responses(Ctx(r, q), raw_responses, title, q.fieldName)
        ELSE IF StartsWith(lowered, "calc:")
        THEN parse_automatic_calculation(Ctx(r, q), raw_responses, title, q.fieldName)
        ELSE IF StartsWith(lowered, "mask:")
        THEN (IF q.questionType = "text"
              THEN Ctx(r, [q EXCEPT !.mask =
                              Strip(SubSeq(raw_stripped, 6, Len(raw_stripped)))])
              ELSE Ctx(Err(r, "Mask.notText", title, q.fieldName, ""), q))
        ELSE Ctx(r, [q EXCEPT !.responses = raw_responses])

\* the dispatch on the Responses cell (source:, calc:, mask:, static)
responses_cell(r, q, raw_responses, title) ==
    LET raw_stripped == Strip(raw_responses)
        lowered == Lower(raw_stripped)
    IN  IF StartsWith(lowered, "source:")
        THEN parse_dynamic_responses(Ctx(r, q), raw_responses, title, q.fieldName)
        ELSE IF StartsWith(lowered, "calc:")
        THEN (IF q.questionType = "automatic"
              THEN (IF Lower(q.fieldName) \notin BUILT_IN_AUTO_FIELDS
                    THEN parse_automatic_calculation(Ctx(r, q), raw_responses,
                                                     title, q.fieldName)
                    ELSE Ctx(r, q))
              ELSE Ctx(Err(r, "Calculation.notAutomatic", title, q.fieldName, ""), q))
        ELSE IF StartsWith(lowered, "mask:")
        THEN (IF q.questionType = "text"
              THEN Ctx(r, [q EXCEPT !.mask =
                              Strip(SubSeq(raw_stripped, 6, Len(raw_stripped)))])
              ELSE Ctx(Err(r, "Mask.notText", title, q.fieldName, ""), q))
        ELSE Ctx(r, [q EXCEPT !.responses = raw_responses])

\* the call of _check_question_field_type that follows the Responses cell
field_type_checked(c, c2, title) ==
    [c EXCEPT !.r = check_question_field_type(c2.r, c2.q, title), !.q = c2.q]

\* the part of the loop body that follows the read of column k, for k in
\* 1..13; c holds the reader, the Question and abort (the `continue`)
RowStep(k, c, row, title, idx) ==
    LET r == c.r
        q == c.q
        set(r2, q2) == [c EXCEPT !.r = r2, !.q = q2]
        name == get_cell_trim(row.FieldName)
        max_chars == get_cell_trim(row.MaxCharacters)
        lower_val == get_cell_trim(row.LowerRange)
        upper_val == get_cell_trim(row.UpperRange)
        button(v) == IF get_cell_trim(v) = "" THEN "-9" ELSE get_cell_trim(v)
    IN  CASE k = 1 ->
             IF name = ""
             THEN [c EXCEPT !.r = Err(r, "FieldName.blank", title, "", ToString(idx)),
                            !.abort = TRUE]
             ELSE set(check_field_name(r, title, name), [q EXCEPT !.fieldName = name])
          [] k = 2 -> set(r, [q EXCEPT !.questionType = get_cell_trim(row.QuestionType)])
          [] k = 3 -> set(r, [q EXCEPT !.fieldType = get_cell_trim(row.FieldType)])
          [] k = 4 ->
             LET text == get_cell_trim(row.QuestionText)
             IN  set(IF text = "" /\ q.questionType # "automatic"
                     THEN Err(r, "QuestionText.blank", title, q.fieldName, "") ELSE r,
                     [q EXCEPT !.questionText = text])
          [] k = 5 ->
             IF max_chars = "" THEN set(r, [q EXCEPT !.maxCharacters = "-9"])
             ELSE IF max_chars = "-9" THEN set(r, [q EXCEPT !.maxCharacters = "-9"])
             ELSE set(check_max_chars_value(r, title, max_chars, q.fieldName),
                      [q EXCEPT !.maxCharacters = max_chars])
          [] k = 6 ->
             field_type_checked(c, responses_cell(r, q, row.Responses, title), title)
          [] k = 7 -> c
          [] k = 8 ->
             LET q2 == [q EXCEPT
                          !.lowerRange = IF lower_val = "" THEN "-9" ELSE lower_val,
                          !.upperRange = IF upper_val = "" THEN "-9" ELSE upper_val]
                 r2 == IF q2.questionType = "date"
                       THEN check_date_range(
                                check_date_range(r, title, q2.lowerRange, q2.fieldName,
                                                 "LowerRange"),
                                title, q2.upperRange, q2.fieldName, "UpperRange")
                       ELSE LET r1 == IF q2.lowerRange # "-9"
                                      THEN check_numeric_range(r, title, q2.lowerRange,
                                               q2.fieldName, "LowerRange")
                                      ELSE r
                            IN  IF q2.upperRange # "-9"
                                THEN check_numeric_range(r1, title, q2.upperRange,
                                         q2.fieldName, "UpperRange")
                                ELSE r1
             IN  set(r2, q2)
          [] k = 9 ->
             LET RECURSIVE checks(_, _)
                 checks(cc, lines) ==
                   IF lines = <<>> THEN cc
                   ELSE LET trimmed == Strip(Head(lines))
                            message == Strip(Split1(trimmed, ";")[2])
                            nxt ==
                              IF StartsWith(trimmed, "unique;")
                              THEN (IF StartsWith(message, "'") /\ EndsWith(message, "'")
                                    THEN Ctx(cc.r, [cc.q EXCEPT !.uniqueCheckMessage =
                                                      StripCh(message, "'")])
                                    ELSE Ctx(Err(cc.r, "LogicCheck.uniqueMessageNotQuoted",
                                                 title, cc.q.fieldName, trimmed), cc.q))
                              ELSE Ctx(check_logic_check_syntax(cc.r, title, trimmed,
                                                                cc.q.fieldName),
                                       [cc.q EXCEPT !.logicChecks = Append(@, trimmed)])
                        IN  checks(nxt, Tail(lines))
             IN  set_ctx(c, checks(Ctx(r, q), split_lines(get_cell_trim(row.LogicCheck))))
          [] k = 10 ->
             set(IF button(row.DontKnow) # "-9"
                 THEN check_special_button(r, title, button(row.DontKnow), q.fieldName,
                                           "DontKnow")
                 ELSE r, [q EXCEPT !.dontKnow = button(row.DontKnow)])
          [] k = 11 ->
             set(IF button(row.Refuse) # "-9"
                 THEN check_special_button(r, title, button(row.Refuse), q.fieldName,
                                           "Refuse")
                 ELSE r, [q EXCEPT !.refuse = button(row.Refuse)])
          [] k = 12 ->
             set(IF button(row.NA) # "-9"
                 THEN check_special_button(r, title, button(row.NA), q.fieldName, "NA")
                 ELSE r, [q EXCEPT !.na = button(row.NA)])
          [] k = 13 ->
             LET skip == get_cell_trim(row.Skip)
             IN  set(IF skip # "" THEN check_skip_syntax(r, title, skip, q.fieldName)
                     ELSE r, [q EXCEPT !.skip = skip])

\* the except clause of the row loop
unexpected_error(r, title, idx) ==
    Err(r, "Unexpected", title, "", ToString(idx))

\* self.questionList.append(q), seeded fault: a row that recorded an error
\* is left out
append_question_mut(r, r0, q) ==
    IF Len(r.logstring) > Len(r0.logstring) THEN r
    ELSE [r EXCEPT !.questionList = Append(@, q)]

\* self.questionList.append(q); r0 is the reader before the row
append_question(r, r0, q) == [r EXCEPT !.questionList = Append(@, q)]

\* the reads of the columns k..13 and what follows each, then the append
RECURSIVE RowFrom(_, _, _, _, _, _)
RowFrom(k, c, r0, row, title, idx) ==
    IF c.abort THEN c.r
    ELSE IF k > 13 THEN append_question(c.r, r0, c.q)
    ELSE IF row.raises = k THEN unexpected_error(c.r, title, idx)
    ELSE RowFrom(k + 1, RowStep(k, c, row, title, idx), r0, row, title, idx)

\* the try block of the row loop for a data row (row_idx > 1), seeded
\* fault: the exception handler drops the rows appended so far
process_row_mut(r, row, title, idx) ==
    IF row.raises = 14 THEN unexpected_error(r, title, idx)
    ELSE IF row.merged THEN r
    ELSE IF row.raises # 0
    THEN [unexpected_error(r, title, idx) EXCEPT !.questionList = <<>>]
    ELSE RowFrom(1, [r |-> r, q |-> NewQuestion, abort |-> FALSE], r, row, title, idx)

\* the try block of the row loop for a data row (row_idx > 1)
process_row(r, row, title, idx) ==
    IF row.raises = 14 THEN unexpected_error(r, title, idx)
    ELSE IF row.merged THEN r
    ELSE RowFrom(1, [r |-> r, q |-> NewQuestion, abort |-> FALSE], r, row, title, idx)

\* the try block of the row loop for row_idx == 1; headers holds the 14
\* header cells
process_header(r, headers, title) ==
    IF [i \in 1..14 |-> get_cell_trim(headers[i])] # COLUMN_NAMES
    THEN Err(r, "Header.incorrect", title, "", "")
    ELSE r

-----------------------------------------------------------------------------
(* ExcelReader: the whole-sheet checks *)

\* the printable ASCII characters (less the double quote, the backslash
\* and the backtick)
\* in code-point order: the order Python's
\* sorted() gives strings
Ascii ==
    " !#$%&'()*+,-./0123456789:;<=>?@ABCDEFGHIJKLMNOPQRSTUVWXYZ[]^_abcdefghijklmnopqrstuvwxyz{|}~"

Ord(c) == CHOOSE i \in 1..Len(Ascii) : Ch(Ascii, i) = c

\* a < b for Python strings
RECURSIVE StrLess(_, _)
StrLess(a, b) ==
    IF b = "" THEN FALSE
    ELSE IF a = "" THEN TRUE
    ELSE IF Head(a) = Head(b) THEN StrLess(Tail(a), Tail(b))
    ELSE Ord(Head(a)) < Ord(Head(b))

\* sorted(S) for a set S of strings
RECURSIVE Sorted(_)
Sorted(S) ==
    IF S = {} THEN <<>>
    ELSE LET m == CHOOSE x \in S : \A y \in S \ {x} : StrLess(x, y)
         IN  <<m>> \o Sorted(S \ {m})

\* sep.join(seq)
RECURSIVE Join(_, _)
Join(seq, sep) ==
    IF seq = <<>> THEN ""
    ELSE IF Len(seq) = 1 THEN seq[1]
    ELSE seq[1] \o sep \o Join(Tail(seq), sep)

\* {q.fieldName: i for i, q in enumerate(self.questionList)}, seeded fault:
\* the first question bearing the name wins
field_index_mut(questionList) ==
    [n \in {questionList[i].fieldName : i \in 1..Len(questionList)} |->
        Min({i \in 1..Len(questionList) : questionList[i].fieldName = n})]

\* {q.fieldName: i for i, q in enumerate(self.questionList)}: a later
\* question bearing the same name overwrites the entry.  Positions are
\* counted from 1 here and from 0 in the code.
field_index(questionList) ==
    [n \in {questionList[i].fieldName : i \in 1..Len(questionList)} |->
        Max({i \in 1..Len(questionList) : questionList[i].fieldName = n})]

\* QUOTED_STRING_RE.sub("", expression): '[^']*'
RECURSIVE RemoveQuoted(_)
RemoveQuoted(s) ==
    LET i == Find(s, "'")
        rest == SubSeq(s, i + 1, Len(s))
        j == Find(rest, "'")
    IN  IF i = 0 \/ j = 0 THEN s
        ELSE SubSeq(s, 1, i - 1) \o RemoveQuoted(SubSeq(rest, j + 1, Len(rest)))

\* FIELD_NAME_RE.findall(s): \b[a-z_][a-z0-9_]*\b, IGNORECASE.  Between two
\* word boundaries lies a maximal run of \w characters; the run matches
\* when it starts with a letter or an underscore.
RECURSIVE FieldNameMatches(_)
FieldNameMatches(s) ==
    IF s = "" THEN <<>>
    ELSE IF ~IsWordChar(Head(s)) THEN FieldNameMatches(Tail(s))
    ELSE LET n == WordPrefix(s)
             run == SubSeq(s, 1, n)
         IN  (IF IsDigit(Head(run)) THEN <<>> ELSE <<run>>)
                 \o FieldNameMatches(SubSeq(s, n + 1, Len(s)))

\* the distinct elements of seq, in the order of their first occurrence
RECURSIVE Distinct(_, _)
Distinct(seq, seen) ==
    IF seq = <<>> THEN <<>>
    ELSE IF Head(seq) \in seen THEN Distinct(Tail(seq), seen)
    ELSE <<Head(seq)>> \o Distinct(Tail(seq), seen \cup {Head(seq)})

Reverse(seq) == [i \in 1..Len(seq) |-> seq[Len(seq) + 1 - i]]

\* the set `referenced` of _check_logic_field_names, listed in the order
\* the loop visits it: Python iterates a set of strings in hash order, here
\* the order of first occurrence or (rev) its reverse
referenced(logic_check, rev) ==
    LET expression == Strip(Split1(logic_check, ";")[1])
        clean_expression == RemoveQuoted(expression)
        matches == FieldNameMatches(clean_expression)
        refs == Distinct(SelectSeq(matches, LAMBDA m : Lower(m) \notin LOGIC_KEYWORDS),
                         {})
    IN  IF rev THEN Reverse(refs) ELSE refs

\* the test of one reference in _check_logic_field_names, seeded fault:
\* a reference to a later field is accepted
logic_reference_mut(r, worksheet, idx, cur_field, ref) ==
    IF ref \in DOMAIN idx THEN r
    ELSE Err(r, "LogicCheck.nonexistent", worksheet, cur_field, ref)

\* the test of one reference in _check_logic_field_names
logic_reference(r, worksheet, idx, cur_field, ref) ==
    IF ref \in DOMAIN idx
    THEN (IF idx[ref] > idx[cur_field]
          THEN Err(r, "LogicCheck.after", worksheet, cur_field, ref) ELSE r)
    ELSE Err(r, "LogicCheck.nonexistent", worksheet, cur_field, ref)

\* ExcelReader._check_logic_field_names
check_logic_field_names(r, worksheet, rev) ==
    LET idx == field_index(r.questionList)
        RECURSIVE refs(_, _, _)
        refs(rr, cur_field, rs) ==
            IF rs = <<>> THEN rr
            ELSE refs(logic_reference(rr, worksheet, idx, cur_field, Head(rs)),
                      cur_field, Tail(rs))
        RECURSIVE checks(_, _, _)
        checks(rr, cur_field, lcs) ==
            IF lcs = <<>> THEN rr
            ELSE checks(refs(rr, cur_field, referenced(Head(lcs), rev)),
                        cur_field, Tail(lcs))
        RECURSIVE questions(_, _)
        questions(rr, i) ==
            IF i > Len(r.questionList) THEN rr
            ELSE questions(checks(rr, r.questionList[i].fieldName,
                                  r.questionList[i].logicChecks), i + 1)
    IN  questions(r, 1)

\* the test of the checked field of one skip line, seeded fault: a checked
\* field after the current question is accepted
skip_checked_field_mut(r, worksheet, idx, cur_field, fieldname_to_check) ==
    IF fieldname_to_check \in DOMAIN idx THEN r
    ELSE Err(r, "Skip.checkNonexistent", worksheet, cur_field, fieldname_to_check)

\* the test of the checked field of one skip line
skip_checked_field(r, worksheet, idx, cur_field, fieldname_to_check) ==
    IF fieldname_to_check \in DOMAIN idx
    THEN (IF idx[fieldname_to_check] > idx[cur_field]
          THEN Err(r, "Skip.checkAfter", worksheet, cur_field, fieldname_to_check)
          ELSE r)
    ELSE Err(r, "Skip.checkNonexistent", worksheet, cur_field, fieldname_to_check)

\* the test of the target of one skip line, seeded fault: a skip to the
\* current question is accepted
skip_target_field_mut(r, worksheet, idx, cur_field, fieldname_to_skip_to) ==
    IF fieldname_to_skip_to \in DOMAIN idx
    THEN (IF idx[fieldname_to_skip_to] < idx[cur_field]
          THEN Err(r, "Skip.targetBefore", worksheet, cur_field, fieldname_to_skip_to)
          ELSE r)
    ELSE Err(r, "Skip.targetNonexistent", worksheet, cur_field, fieldname_to_skip_to)

\* the test of the target of one skip line
skip_target_field(r, worksheet, idx, cur_field, fieldname_to_skip_to) ==
    IF fieldname_to_skip_to \in DOMAIN idx
    THEN (IF idx[fieldname_to_skip_to] < idx[cur_field]
          THEN Err(r, "Skip.targetBefore", worksheet, cur_field, fieldname_to_skip_to)
          ELSE IF idx[fieldname_to_skip_to] = idx[cur_field]
          THEN Err(r, "Skip.targetCurrent", worksheet, cur_field, fieldname_to_skip_to)
          ELSE r)
    ELSE Err(r, "Skip.targetNonexistent", worksheet, cur_field, fieldname_to_skip_to)

\* words = [w for w in skip.split(" ") if w]
skip_words(skip) == NonEmpty(Split(skip, " "))

\* ExcelReader._check_skip_to_field_names
check_skip_to_field_names(r, worksheet) ==
    LET idx == field_index(r.questionList)
        line(rr, cur_field, skip) ==
            LET words == skip_words(skip)
                fieldname_to_check == StripCh(Strip(words[3]), ",")
                fieldname_to_skip_to == Strip(words[Len(words)])
            IN  IF Len(words) < 4
                THEN Err(rr, "Skip.invalidStructure", worksheet, cur_field, skip)
                ELSE skip_target_field(
                         skip_checked_field(rr, worksheet, idx, cur_field,
                                            fieldname_to_check),
                         worksheet, idx, cur_field, fieldname_to_skip_to)
        RECURSIVE lines(_, _, _)
        lines(rr, cur_field, ls) ==
            IF ls = <<>> THEN rr
            ELSE lines(line(rr, cur_field, Head(ls)), cur_field, Tail(ls))
        RECURSIVE questions(_, _)
        questions(rr, i) ==
            IF i > Len(r.questionList) THEN rr
            ELSE questions(IF r.questionList[i].skip = "" THEN rr
                           ELSE lines(rr, r.questionList[i].fieldName,
                                      split_lines(r.questionList[i].skip)),
                           i + 1)
    IN  questions(r, 1)

\* ExcelReader._check_required_max_characters
check_required_max_characters(r, worksheet) ==
    LET RECURSIVE questions(_, _)
        questions(rr, i) ==
            IF i > Len(r.questionList) THEN rr
            ELSE LET question == r.questionList[i]
                 IN  questions(
                       IF /\ question.fieldType \in {"text", "text_integer", "phone_num"}
                          /\ question.questionType \notin
                                 {"automatic", "checkbox", "combobox"}
                          /\ question.maxCharacters = "-9"
                       THEN Err(rr, "MaxCharacters.required", worksheet,
                                question.fieldName, "")
                       ELSE rr, i + 1)
    IN  questions(r, 1)

\* ExcelReader._check_duplicate_columns, seeded fault: information rows
\* are not exempt
check_duplicate_columns_mut(r, worksheet) ==
    LET fields == [i \in 1..Len(r.questionList) |-> r.questionList[i].fieldName]
        count(f) == Cardinality({i \in 1..Len(fields) : fields[i] = f})
        duplicates == Sorted({f \in Range(fields) : count(f) > 1})
    IN  IF Cardinality(Range(fields)) # Len(fields)
        THEN Err(r, "Duplicate.fieldnames", worksheet, "", Join(duplicates, ","))
        ELSE r

\* ExcelReader._check_duplicate_columns
check_duplicate_columns(r, worksheet) ==
    LET fields == SelectSeq([i \in 1..Len(r.questionList) |-> r.questionList[i]],
                            LAMBDA q : q.questionType # "information")
        names == [i \in 1..Len(fields) |-> fields[i].fieldName]
        count(f) == Cardinality({i \in 1..Len(names) : names[i] = f})
        duplicates == Sorted({f \in Range(names) : count(f) > 1})
    IN  IF Cardinality(Range(names)) # Len(names)
        THEN Err(r, "Duplicate.fieldnames", worksheet, "", Join(duplicates, ","))
        ELSE r

-----------------------------------------------------------------------------
(* ExcelReader.create_question_list, step by step.  rpc is the position:  *)
(* "header" (row 1), "rows" (the row loop), "logic", "skip", "maxchars",  *)
(* "dups" (before each whole-sheet check), "noerr" (line 216), "return".  *)

\* the bounds of the model on worksheet.max_row - 1, the number of data
\* rows of a sheet: in the runs of the processor, and in the sheets read
\* for the row-level checks, the reference checks and the duplicate check
MaxRows == 2
MaxProblemRows == 3
MaxRefRows == 3
MaxDupRows == 4

\* the bound on the length of the names given to the field-name check
MaxNameLen == 3

\* lines 80-82
begin_question_list(r, title) ==
    [r EXCEPT !.worksheetErrorsEncountered = FALSE,
              !.logstring = Append(@, Msg("INFO", "Checking", title, "", "")),
              !.questionList = <<>>]

\* the test of line 211, seeded fault: the whole-sheet checks always run
after_rows_mut(r) == "logic"

\* the test of line 211: where the row loop leaves to
after_rows(r) == IF ~r.worksheetErrorsEncountered THEN "logic" ELSE "return"

\* lines 216-217
no_errors_found(r, title) ==
    IF ~r.worksheetErrorsEncountered
    THEN [r EXCEPT !.logstring = Append(@, Msg("INFO", "NoErrors", title, "", ""))]
    ELSE r

\* line 48 of processor.py: the worksheets that run processes
worksheets(workbook) ==
    SelectSeq(workbook, LAMBDA t : EndsWith(t, "_dd") \/ EndsWith(t, "_xml"))

\* the title of the worksheet being read
Title == IF wsi \in 1..Len(worksheets(wb)) THEN worksheets(wb)[wsi] ELSE ""

ReadHeader(Headers) ==
    /\ rpc = "header"
    /\ \E h \in Headers :
          /\ reader' = process_header(reader, h, Title)
          /\ row_idx' = 2
          /\ rpc' = "rows"
    /\ UNCHANGED <<pc, proc, wb, wsi, cur>>

ReadRow(Rows, max_rows) ==
    /\ rpc = "rows"
    /\ row_idx <= max_rows + 1
    /\ \E row \in Rows :
          /\ cur' = row
          /\ reader' = process_row(reader, row, Title, row_idx)
    /\ row_idx' = row_idx + 1
    /\ UNCHANGED <<pc, proc, wb, wsi, rpc>>

\* row_idx has passed worksheet.max_row
EndRows ==
    /\ rpc = "rows"
    /\ rpc' = after_rows(reader)
    /\ UNCHANGED <<pc, proc, wb, wsi, reader, row_idx, cur>>

CheckLogicFieldNames ==
    /\ rpc = "logic"
    /\ \E rev \in BOOLEAN : reader' = check_logic_field_names(reader, Title, rev)
    /\ rpc' = "skip"
    /\ UNCHANGED <<pc, proc, wb, wsi, row_idx, cur>>

CheckSkipToFieldNames ==
    /\ rpc = "skip"
    /\ reader' = check_skip_to_field_names(reader, Title)
    /\ rpc' = "maxchars"
    /\ UNCHANGED <<pc, proc, wb, wsi, row_idx, cur>>

CheckRequiredMaxCharacters ==
    /\ rpc = "maxchars"
    /\ reader' = check_required_max_characters(reader, Title)
    /\ rpc' = "dups"
    /\ UNCHANGED <<pc, proc, wb, wsi, row_idx, cur>>

CheckDuplicateColumns ==
    /\ rpc = "dups"
    /\ reader' = check_duplicate_columns(reader, Title)
    /\ rpc' = "noerr"
    /\ UNCHANGED <<pc, proc, wb, wsi, row_idx, cur>>

NoErrorsFound ==
    /\ rpc = "noerr"
    /\ reader' = no_errors_found(reader, Title)
    /\ rpc' = "return"
    /\ UNCHANGED <<pc, proc, wb, wsi, row_idx, cur>>

WholeSheetChecks ==
    \/ CheckLogicFieldNames
    \/ CheckSkipToFieldNames
    \/ CheckRequiredMaxCharacters
    \/ CheckDuplicateColumns
    \/ NoErrorsFound

-----------------------------------------------------------------------------
(* GiSTXProcessor.run, step by step.  pc is the position: "start",       *)
(* "sheets" (the loop of line 50), "reading" (inside                     *)
(* create_question_list), "emit" (the loop of line 61), "endlog", "zip",  *)
(* "writelog", "done" (returned) and "raised" (left by an exception).     *)

\* GiSTXProcessor.__init__ and line 26; out is the history of the files
\* written and removed, result the value returned by run
NewProcessor ==
    [errorsEncountered |-> FALSE,
     logstring |-> <<Msg("INFO", "LogFileFor", "", "", "")>>,
     generated_files |-> <<>>,
     question_list_cache |-> <<>>,
     xml_files |-> <<>>,
     out |-> <<>>,
     result |-> "none"]

File(what, name, content) == [what |-> what, name |-> name, content |-> content]

\* the three closing lines of the log (lines 35-41 and 91-97)
EndOfLogLines ==
    <<Msg("INFO", "Rule", "", "", ""), Msg("INFO", "EndOfLog", "", "", ""),
      Msg("INFO", "Rule", "", "", "")>>

\* GiSTXProcessor._write_logfile
write_logfile(p) == [p EXCEPT !.out = Append(@, File("log", "gistlogfile.txt", <<>>))]

\* question_list_cache[title] = qlist (a dict keeps the first insertion place)
cache_set(cache, title, qlist) ==
    IF \E i \in 1..Len(cache) : cache[i].title = title
    THEN [i \in 1..Len(cache) |->
             IF cache[i].title = title THEN [title |-> title, qlist |-> qlist]
             ELSE cache[i]]
    ELSE Append(cache, [title |-> title, qlist |-> qlist])

\* lines 53-56, seeded fault: once a sheet has failed the Question lists of
\* the later sheets are cached empty
collect_mut(p, r, title) ==
    [p EXCEPT !.errorsEncountered = IF r.errorsEncountered THEN TRUE ELSE @,
              !.logstring = @ \o r.logstring,
              !.question_list_cache =
                  cache_set(@, title, IF p.errorsEncountered THEN <<>>
                                      ELSE r.questionList)]

\* lines 53-56
collect(p, r, title) ==
    [p EXCEPT !.errorsEncountered = IF r.errorsEncountered THEN TRUE ELSE @,
              !.logstring = @ \o r.logstring,
              !.question_list_cache = cache_set(@, title, r.questionList)]

\* the test of line 60, seeded fault: the documents are emitted always
gate_mut(p) == TRUE

\* the test of line 60
gate(p) == ~p.errorsEncountered

\* line 62
xml_name(ws_name) == Replace(Replace(ws_name, "_dd", ".xml"), "_xml", ".xml")

\* XmlGenerator.write_xml, lines 13-18: the name of the file it writes
out_file(worksheet_name) ==
    (IF EndsWith(worksheet_name, "_dd")
     THEN SubSeq(worksheet_name, 1, Len(worksheet_name) - 3)
     ELSE SubSeq(worksheet_name, 1, Len(worksheet_name) - 4)) \o ".xml"

\* s if the test of an `if` of write_xml holds, nothing otherwise
When(test, s) == IF test THEN s ELSE <<>>

\* write_xml, lines 103-116: the elements of the Skip cell
skip_children(q) ==
    LET skips == SelectSeq(split_lines(q.skip), LAMBDA l : l # "")
        pre == SelectSeq(skips, LAMBDA l : StartsWith(l, "preskip:"))
        post == SelectSeq(skips, LAMBDA l : StartsWith(l, "postskip:"))
    IN  When(q.skip # "", When(pre # <<>>, <<"preskip">>)
                              \o When(post # <<>>, <<"postskip">>))

\* write_xml, lines 28-123, seeded fault: the responses element is written
\* before the logic checks
children_mut(q) ==
    When(q.questionType # "automatic", <<"text">>)
    \o When(q.questionType = "automatic" /\ q.calculationType # "None",
            <<"calculation">>)
    \o When(q.maxCharacters # "-9", <<"maxCharacters">>)
    \o When(q.mask # "", <<"mask">>)
    \o When(q.uniqueCheckMessage # "", <<"unique_check">>)
    \o When(q.questionType # "date" /\ q.lowerRange # "-9", <<"numeric_check">>)
    \o When(q.questionType = "date", <<"date_range">>)
    \o When(q.questionType \in {"radio", "checkbox", "combobox"}, <<"responses">>)
    \o [i \in 1..Len(q.logicChecks) |-> "logic_check"]
    \o skip_children(q)
    \o When(q.dontKnow \in {"TRUE", "True"}, <<"dont_know">>)
    \o When(q.refuse \in {"TRUE", "True"}, <<"refuse">>)
    \o When(q.na \in {"TRUE", "True"}, <<"na">>)

\* write_xml, lines 28-123: the names of the child elements of the question
\* element of q, in the order they are written
children(q) ==
    When(q.questionType # "automatic", <<"text">>)
    \o When(q.questionType = "automatic" /\ q.calculationType # "None",
            <<"calculation">>)
    \o When(q.maxCharacters # "-9", <<"maxCharacters">>)
    \o When(q.mask # "", <<"mask">>)
    \o When(q.uniqueCheckMessage # "", <<"unique_check">>)
    \o When(q.questionType # "date" /\ q.lowerRange # "-9", <<"numeric_check">>)
    \o When(q.questionType = "date", <<"date_range">>)
    \o [i \in 1..Len(q.logicChecks) |-> "logic_check"]
    \o When(q.questionType \in {"radio", "checkbox", "combobox"}, <<"responses">>)
    \o skip_children(q)
    \o When(q.dontKnow \in {"TRUE", "True"}, <<"dont_know">>)
    \o When(q.refuse \in {"TRUE", "True"}, <<"refuse">>)
    \o When(q.na \in {"TRUE", "True"}, <<"na">>)

\* a question element: its attributes and the names of its children
Element(type, fieldname, kids) ==
    [type |-> type, fieldname |-> fieldname, children |-> kids]

\* write_xml, lines 23-130: the question elements of the document, in order
document(question_list) ==
    [i \in 1..Len(question_list) |->
        Element(question_list[i].questionType, question_list[i].fieldName,
                children(question_list[i]))]
        \o <<Element("information", "end_of_questions", <<"text">>)>>

\* GiSTXProcessor._validate_xml_syntax for a document that fails to parse
validation_failed(p, name) ==
    [p EXCEPT !.errorsEncountered = TRUE,
              !.logstring = @ \o <<Msg("CRITICAL ERROR", "XmlSyntax", "", name, ""),
                                    Msg("INFO", "Details", "", name, "")>>]

\* lines 62-71 for one item of the cache; parses tells whether ET.parse
\* accepts the document
emit_document(p, item, parses) ==
    LET p1 == [p EXCEPT !.xml_files = Append(@, xml_name(item.title)),
                        !.out = Append(@, File("xml", out_file(item.title),
                                               document(item.qlist)))]
        p2 == IF parses THEN p1 ELSE validation_failed(p1, out_file(item.title))
    IN  [p2 EXCEPT !.generated_files = Append(@, out_file(item.title))]

\* lines 73-89
write_manifest(p) ==
    [p EXCEPT !.out = Append(@, File("manifest", "survey_manifest.gistx", p.xml_files)),
              !.logstring = @ \o <<Msg("INFO", "Blank", "", "", ""),
                                    Msg("INFO", "ManifestGenerated", "", "", "")>>,
              !.generated_files = Append(@, "survey_manifest.gistx")]

\* the files of generated_files, each once: the second unlink of a path
\* finds that the file no longer exists
unlinked(p) ==
    LET RECURSIVE names(_, _)
        names(i, acc) ==
            IF i > Len(p.generated_files) THEN acc
            ELSE names(i + 1,
                       IF p.generated_files[i] \in Range(acc) THEN acc
                       ELSE Append(acc, p.generated_files[i]))
    IN  names(1, <<>>)

\* GiSTXProcessor._create_zip_file (no CSV directory configured)
create_zip_file(p) ==
    LET added == p.generated_files
        names == unlinked(p)
    IN  [p EXCEPT
           !.out = (@ \o <<File("zip", "survey.zip", added)>>)
                      \o [i \in 1..Len(names) |-> File("unlink", names[i], <<>>)],
           !.logstring = ((@ \o [i \in 1..Len(added) |->
                                    Msg("INFO", "AddedToZip", "", added[i], "")])
                             \o <<Msg("INFO", "Blank", "", "", ""),
                                  Msg("INFO", "ZipCreated", "", "", "")>>)
                             \o [i \in 1..Len(names) |->
                                    Msg("INFO", "Deleted", "", names[i], "")]]

-----------------------------------------------------------------------------
(* The inputs of the model *)

\* a data row that passes every check
BaseRow(name) ==
    [merged |-> FALSE, raises |-> 0, FieldName |-> name, QuestionType |-> "text",
     FieldType |-> "text", QuestionText |-> "Q", MaxCharacters |-> "10",
     Responses |-> "", LowerRange |-> "", UpperRange |-> "", LogicCheck |-> "",
     DontKnow |-> "", Refuse |-> "", NA |-> "", Skip |-> ""]

\* the value of cur before any row is read
NoRow == BaseRow("")

\* a combobox row with a response directive
SourceRow(name, directive) ==
    [BaseRow(name) EXCEPT !.QuestionType = "combobox", !.MaxCharacters = "",
                          !.Responses = directive]

\* an automatic row with a calculation directive
CalcRow(name, directive) ==
    [BaseRow(name) EXCEPT !.QuestionType = "automatic", !.MaxCharacters = "",
                          !.QuestionText = "", !.Responses = directive]

KnownSource == "source: csv\nfile: f.csv\ndisplay: d\nvalue: v"
KnownCalc == "calc: constant\nvalue: 1"

\* rows whose only anomaly is a directive key outside the known set, each
\* with the row that lacks the unknown line and the kind of its warning
UnknownKeyPairs ==
    { <<SourceRow("s", KnownSource \o "\ncolour: red"), SourceRow("s", KnownSource),
        "Responses.unknownKey">>,
      <<CalcRow("c", KnownCalc \o "\ncolour: red"), CalcRow("c", KnownCalc),
        "Calculation.unknownKey">> }

UnknownKeyRows == { pair[1] : pair \in UnknownKeyPairs }

\* the rows of the runs of the processor: a valid row, a blank field name,
\* a row-level error, an exception, an unknown directive key, and a text
\* row without MaxCharacters (an error of the whole-sheet checks)
RunRows ==
    { BaseRow("a"),
      BaseRow(""),
      [BaseRow("b") EXCEPT !.FieldType = "nosuchtype"],
      [BaseRow("b") EXCEPT !.raises = 4],
      [BaseRow("b") EXCEPT !.MaxCharacters = ""] } \cup UnknownKeyRows

CorrectHeaders == COLUMN_NAMES
WrongHeaders == [COLUMN_NAMES EXCEPT ![1] = "Field Name"]

\* the workbooks of the runs: the titles of their sheets, in order
Workbooks ==
    { <<"a_dd">>, <<"crfs", "a_dd", "b_xml">>, <<"a_dd", "a_xml">>, <<"notes">> }

-----------------------------------------------------------------------------
(* The actions of GiSTXProcessor.run *)

\* lines 32-43
ExcelMissing ==
    /\ pc = "start"
    /\ proc' = [write_logfile(
                   [proc EXCEPT !.logstring =
                       (@ \o <<Msg("ERROR", "ExcelNotFound", "", "", ""),
                               Msg("INFO", "Path", "", "", "")>>) \o EndOfLogLines])
                EXCEPT !.result = "1"]
    /\ pc' = "done"
    /\ UNCHANGED <<wb, wsi, rpc, reader, row_idx, cur>>

\* line 45
LoadWorkbook ==
    /\ pc = "start"
    /\ \E workbook \in Workbooks : wb' = workbook
    /\ wsi' = 1
    /\ pc' = "sheets"
    /\ UNCHANGED <<proc, rpc, reader, row_idx, cur>>

\* lines 50-52: a new reader starts on the next worksheet
BeginSheet ==
    /\ pc = "sheets"
    /\ wsi <= Len(worksheets(wb))
    /\ reader' = begin_question_list(NewReader, Title)
    /\ rpc' = "header"
    /\ row_idx' = 1
    /\ cur' = NoRow
    /\ pc' = "reading"
    /\ UNCHANGED <<proc, wb, wsi>>

\* lines 53-56: create_question_list has returned
Collect ==
    /\ pc = "reading"
    /\ rpc = "return"
    /\ proc' = collect(proc, reader, Title)
    /\ wsi' = wsi + 1
    /\ rpc' = "idle"
    /\ pc' = "sheets"
    /\ UNCHANGED <<wb, reader, row_idx, cur>>

\* lines 58-60: the worksheet loop has ended
Gate ==
    /\ pc = "sheets"
    /\ wsi > Len(worksheets(wb))
    /\ proc' = [proc EXCEPT !.xml_files = <<>>]
    /\ wsi' = 1
    /\ pc' = IF gate(proc) THEN "emit" ELSE "endlog"
    /\ UNCHANGED <<wb, rpc, reader, row_idx, cur>>

\* lines 61-71 for one sheet: the document is written and parses, is
\* written and does not parse, or write_xml raises
EmitDocument ==
    /\ pc = "emit"
    /\ wsi <= Len(proc.question_list_cache)
    /\ \E outcome \in {"parses", "invalid", "raises"} :
          IF outcome = "raises"
          THEN /\ proc' = [proc EXCEPT !.xml_files =
                              Append(@, xml_name(proc.question_list_cache[wsi].title)),
                                       !.result = "raised"]
               /\ pc' = "raised"
               /\ wsi' = wsi
          ELSE /\ proc' = emit_document(proc, proc.question_list_cache[wsi],
                                        outcome = "parses")
               /\ pc' = pc
               /\ wsi' = wsi + 1
    /\ UNCHANGED <<wb, rpc, reader, row_idx, cur>>

\* lines 73-89: the loop of line 61 has ended
WriteManifest ==
    /\ pc = "emit"
    /\ wsi > Len(proc.question_list_cache)
    /\ proc' = write_manifest(proc)
    /\ pc' = "endlog"
    /\ UNCHANGED <<wb, wsi, rpc, reader, row_idx, cur>>

\* lines 91-99
EndOfLog ==
    /\ pc = "endlog"
    /\ proc' = [proc EXCEPT !.logstring = @ \o EndOfLogLines]
    /\ pc' = IF ~proc.errorsEncountered THEN "zip" ELSE "writelog"
    /\ UNCHANGED <<wb, wsi, rpc, reader, row_idx, cur>>

\* line 100: the archive is built, or building it raises
CreateZipFile ==
    /\ pc = "zip"
    /\ \E raises \in BOOLEAN :
          IF raises
          THEN /\ proc' = [proc EXCEPT !.result = "raised"]
               /\ pc' = "raised"
          ELSE /\ proc' = create_zip_file(proc)
               /\ pc' = "writelog"
    /\ UNCHANGED <<wb, wsi, rpc, reader, row_idx, cur>>

\* lines 102-103
WriteLogfile ==
    /\ pc = "writelog"
    /\ proc' = [write_logfile(proc) EXCEPT
                   !.result = IF proc.errorsEncountered THEN "1" ELSE "0"]
    /\ pc' = "done"
    /\ UNCHANGED <<wb, wsi, rpc, reader, row_idx, cur>>

Init ==
    /\ pc = "start"
    /\ proc = NewProcessor
    /\ wb = <<>>
    /\ wsi = 0
    /\ rpc = "idle"
    /\ reader = NewReader
    /\ row_idx = 0
    /\ cur = NoRow

Next ==
    \/ ExcelMissing
    \/ LoadWorkbook
    \/ BeginSheet
    \/ ReadHeader({CorrectHeaders})
    \/ ReadRow(RunRows, MaxRows)
    \/ EndRows
    \/ WholeSheetChecks
    \/ Collect
    \/ Gate
    \/ EmitDocument
    \/ WriteManifest
    \/ EndOfLog
    \/ CreateZipFile
    \/ WriteLogfile

Spec == Init /\ [][Next]_vars

-----------------------------------------------------------------------------
(* One sheet read by one reader: the worksheet loop of run on a workbook  *)
(* of a single sheet, up to the collection of its result.                 *)

InitSheet ==
    /\ pc = "sheets"
    /\ proc = NewProcessor
    /\ wb = <<"t_dd">>
    /\ wsi = 1
    /\ rpc = "idle"
    /\ reader = NewReader
    /\ row_idx = 0
    /\ cur = NoRow

\* an information row: exempt from the duplicate check
Info(name) ==
    [BaseRow(name) EXCEPT !.QuestionType = "information", !.FieldType = "n/a",
                          !.MaxCharacters = ""]

\* row with a logic check whose expression names ref
Logic(row, ref) == [row EXCEPT !.LogicCheck = ref \o " = 1; 'm'"]

\* row with a skip line that checks chk and skips to target
SkipTo(row, chk, target) ==
    [row EXCEPT !.Skip = "postskip: if " \o chk \o " = 1, skip to " \o target]

\* the rows of the sheets read for the row-level checks: each kind of
\* row-level problem, blank names, merged rows, unknown keys, exceptions
ProblemRows ==
    { BaseRow("a"),
      BaseRow(""),
      [BaseRow("  ") EXCEPT !.FieldType = "nosuchtype"],
      [BaseRow("a") EXCEPT !.merged = TRUE],
      [BaseRow("") EXCEPT !.merged = TRUE],
      BaseRow("Bad"),
      [BaseRow("b") EXCEPT !.MaxCharacters = "abc"],
      [BaseRow("b") EXCEPT !.LowerRange = "x", !.UpperRange = "9"],
      [BaseRow("b") EXCEPT !.FieldType = "nosuchtype", !.MaxCharacters = "0"],
      SourceRow("s", "source: nowhere"),
      Logic(BaseRow("b"), "a") ,
      [BaseRow("b") EXCEPT !.LogicCheck = "a = 1"],
      [BaseRow("b") EXCEPT !.Skip = "nonsense"],
      [BaseRow("b") EXCEPT !.QuestionText = " "],
      [BaseRow("b") EXCEPT !.raises = 1],
      [BaseRow("Bad") EXCEPT !.raises = 5],
      [BaseRow("b") EXCEPT !.raises = 13],
      [BaseRow("b") EXCEPT !.raises = 14],
      [BaseRow("b") EXCEPT !.merged = TRUE, !.raises = 5] } \cup UnknownKeyRows

NextRows ==
    \/ BeginSheet
    \/ ReadHeader({CorrectHeaders, WrongHeaders})
    \/ ReadRow(ProblemRows, MaxProblemRows)
    \/ EndRows
    \/ WholeSheetChecks
    \/ Collect

SpecRows == InitSheet /\ [][NextRows]_vars

\* the rows of the sheets read for the reference checks
RefRows ==
    { BaseRow("a"),
      BaseRow("b"),
      Info("x"),
      Logic(BaseRow("a"), "b"),
      Logic(BaseRow("b"), "a"),
      Logic(Info("x"), "b"),
      Logic(BaseRow("a"), "z"),
      [BaseRow("b") EXCEPT !.LogicCheck = "a = 'q z' AND not b = 1; 'm'"],
      SkipTo(BaseRow("a"), "a", "b"),
      SkipTo(BaseRow("b"), "a", "a"),
      SkipTo(BaseRow("a"), "a", "a"),
      SkipTo(BaseRow("a"), "b", "z"),
      SkipTo(Info("x"), "b", "b"),
      [SkipTo(BaseRow("b"), "a", "a") EXCEPT !.FieldType = "nosuchtype"] }

NextRefs ==
    \/ BeginSheet
    \/ ReadHeader({CorrectHeaders})
    \/ ReadRow(RefRows, MaxRefRows)
    \/ EndRows
    \/ WholeSheetChecks
    \/ Collect

SpecRefs == InitSheet /\ [][NextRefs]_vars

\* the rows of the sheets read for the duplicate check
DupRows == { BaseRow("a"), BaseRow("b"), Info("x"), Info("a") }

NextDups ==
    \/ BeginSheet
    \/ ReadHeader({CorrectHeaders})
    \/ ReadRow(DupRows, MaxDupRows)
    \/ EndRows
    \/ WholeSheetChecks
    \/ Collect

SpecDups == InitSheet /\ [][NextDups]_vars

-----------------------------------------------------------------------------
(* ExcelReader._check_field_name on its own: the names are the non-empty  *)
(* trimmed strings the row loop passes to it.                             *)

\* a lower-case letter, an upper-case letter, a digit, the underscore, a
\* space and a character outside the word characters
NameAlphabet == {"a", "B", "1", "_", " ", "-"}

RECURSIVE Strings(_, _)
Strings(alphabet, n) ==
    IF n = 0 THEN {""}
    ELSE Strings(alphabet, n - 1)
            \cup {s \o ch : s \in Strings(alphabet, n - 1), ch \in alphabet}

Names == {s \in Strings(NameAlphabet, MaxNameLen) : s # "" /\ Strip(s) = s}

InitName ==
    /\ pc = "check_field_name"
    /\ proc = NewProcessor
    /\ wb = <<"t_dd">>
    /\ wsi = 1
    /\ rpc = "rows"
    /\ reader = begin_question_list(NewReader, "t_dd")
    /\ row_idx = 2
    /\ cur \in {BaseRow(name) : name \in Names}

CheckFieldName ==
    /\ pc = "check_field_name"
    /\ reader' = check_field_name(reader, Title, get_cell_trim(cur.FieldName))
    /\ pc' = "checked"
    /\ UNCHANGED <<proc, wb, wsi, rpc, row_idx, cur>>

NextName == CheckFieldName

SpecName == InitName /\ [][NextName]_vars

-----------------------------------------------------------------------------
(* The properties *)

\* the lines of a log with a given severity
Lines(log, sev) == {i \in 1..Len(log) : log[i].sev = sev}

\* the error diagnostics of the sheets in the log of the run (the line
\* that reports a missing input file is not one)
SheetErrors(log) == {i \in Lines(log, "ERROR") : log[i].kind # "ExcelNotFound"}

\* the documents written so far
Documents == {i \in 1..Len(proc.out) : proc.out[i].what = "xml"}

\* C1: every sheet is parsed and validated before any markup document is
\* written, and a document is written only if no sheet of the run recorded
\* an error diagnostic: one failing sheet suppresses the documents of all
\* sheets.
C1_TwoPhaseGate ==
    Documents # {} =>
        /\ pc \notin {"start", "sheets", "reading"}
        /\ Len(proc.question_list_cache) = Len(worksheets(wb))
        /\ Lines(proc.logstring, "ERROR") = {}

\* a run of two sheets has ended: one sheet passed, the other failed, and
\* no document was written
C1_Witness ==
    /\ pc = "done"
    /\ Len(worksheets(wb)) = 2
    /\ \E i \in 1..Len(proc.logstring) : proc.logstring[i].kind = "NoErrors"
    /\ Lines(proc.logstring, "ERROR") # {}
    /\ Documents = {}

\* the state part of C2
C2_Flags ==
    /\ reader.worksheetErrorsEncountered => reader.errorsEncountered
    /\ Lines(reader.logstring, "ERROR") # {} <=> reader.worksheetErrorsEncountered
    /\ Lines(reader.logstring, "ERROR") # {} => reader.errorsEncountered
    /\ SheetErrors(proc.logstring) # {} => proc.errorsEncountered

\* the step part of C2: within a sheet the log only grows and the flags
\* are not cleared, the run-level flag is never cleared, and the collection
\* of a sheet's result carries the reader's flag and log to the run
C2_Steps ==
    /\ proc.errorsEncountered => proc'.errorsEncountered
    /\ (pc = "reading" /\ pc' = "reading") =>
          /\ reader.errorsEncountered => reader'.errorsEncountered
          /\ reader.worksheetErrorsEncountered => reader'.worksheetErrorsEncountered
          /\ Len(reader'.logstring) >= Len(reader.logstring)
          /\ SubSeq(reader'.logstring, 1, Len(reader.logstring)) = reader.logstring
    /\ (pc = "reading" /\ pc' = "sheets") =>
          /\ reader.errorsEncountered => proc'.errorsEncountered
          /\ proc'.logstring = proc.logstring \o reader.logstring

\* C2: every error diagnostic raised while building or validating a sheet
\* is appended to the log and sets both the sheet-failed and the run-failed
\* flag; sheet-failed implies run-failed in every reachable state, the
\* run-failed flag is never cleared, and the run-level flag is set at the
\* end of parsing whenever a sheet's reader recorded an error.
C2_ErrorFlags == []C2_Flags /\ [][C2_Steps]_vars

\* the result of a failed sheet has been collected and another sheet is
\* still to be read
C2_Witness ==
    /\ pc = "sheets"
    /\ wsi = 2
    /\ Len(worksheets(wb)) = 2
    /\ reader.worksheetErrorsEncountered
    /\ proc.errorsEncountered

\* the step part of C3: reading a row with an unknown key does what
\* reading the row without that line does, plus one WARNING line
C3_Steps ==
    \A pair \in UnknownKeyPairs :
        (rpc = "rows" /\ row_idx' = row_idx + 1 /\ cur' = pair[1]) =>
            reader' = [process_row(reader, pair[2], Title, row_idx) EXCEPT
                          !.logstring = Append(@, Msg("WARNING", pair[3], Title,
                                                      pair[1].FieldName, "colour"))]

\* the run part of C3: a run that ended with warnings and without errors
\* has written the document of each of its sheets
C3_Emitted ==
    (/\ pc = "done"
     /\ Lines(proc.logstring, "WARNING") # {}
     /\ Lines(proc.logstring, "ERROR") = {}
     /\ Lines(proc.logstring, "CRITICAL ERROR") = {}) =>
        /\ proc.result = "0"
        /\ {proc.out[i].name : i \in Documents}
              = {out_file(worksheets(wb)[i]) : i \in 1..Len(worksheets(wb))}

\* C3: an unknown key in a response directive block or in a calculation
\* directive block appends a WARNING line to the log and leaves the
\* sheet-failed flag, the run-failed flag and the Question being built
\* unchanged; a run whose only anomalies are unknown keys still emits its
\* markup.
C3_UnknownKeyWarns == [][C3_Steps]_vars /\ []C3_Emitted

\* a run with an unknown-key warning has ended successfully with its
\* document written
C3_Witness ==
    /\ pc = "done"
    /\ proc.result = "0"
    /\ \E i \in 1..Len(proc.logstring) :
          /\ proc.logstring[i].sev = "WARNING"
          /\ proc.logstring[i].kind \in {"Responses.unknownKey", "Calculation.unknownKey"}
    /\ Documents # {}

\* a data row has just been read: the step of ReadRow
RowRead == rpc = "rows" /\ row_idx' = row_idx + 1

\* the lines the step added to the log of the reader
NewLines == SubSeq(reader'.logstring, Len(reader.logstring) + 1, Len(reader'.logstring))

\* the statement of C4 on one step
C4_Steps ==
    (RowRead /\ ~cur'.merged) =>
        IF get_cell_trim(cur'.FieldName) = ""
        THEN /\ Len(NewLines) = 1
             /\ NewLines[1].sev = "ERROR"
             /\ reader'.questionList = reader.questionList
        ELSE /\ Len(reader'.questionList) = Len(reader.questionList) + 1
             /\ SubSeq(reader'.questionList, 1, Len(reader.questionList))
                   = reader.questionList
             /\ reader'.questionList[Len(reader'.questionList)].fieldName
                   = get_cell_trim(cur'.FieldName)

\* C4: for every data row that is not skipped as merged, a blank FieldName
\* logs one diagnostic and the row is not added to the Question list, and
\* every other row is appended whatever its row-level problems, so that the
\* list holds, in sheet order, exactly the non-merged rows with a non-blank
\* FieldName.
C4_RowsKept == [][C4_Steps]_vars

\* the processing of row raises: the merged test raises, or the row is not
\* merged and the read of a cell raises (after a blank FieldName no other
\* cell is read)
Raised(row) ==
    \/ row.raises = 14
    \/ /\ ~row.merged
       /\ row.raises \in 1..13
       /\ (row.raises = 1 \/ get_cell_trim(row.FieldName) # "")

\* the statement of C5 on one step
C5_Steps ==
    RowRead =>
        /\ Raised(cur') =>
              /\ reader'.questionList = reader.questionList
              /\ Cardinality({i \in 1..Len(NewLines) : NewLines[i].kind = "Unexpected"}) = 1
              /\ NewLines[Len(NewLines)]
                    = Msg("ERROR", "Unexpected", Title, "", ToString(row_idx))
              /\ reader'.errorsEncountered
              /\ reader'.worksheetErrorsEncountered
              /\ rpc' = "rows"
        /\ LET alone == process_row(begin_question_list(NewReader, Title), cur',
                                    Title, row_idx)
           IN  /\ NewLines = Tail(alone.logstring)
               /\ reader'.questionList = reader.questionList \o alone.questionList

\* C5: an exception raised while processing one row is caught and converted
\* into one error diagnostic that sets both failure flags; it does not stop
\* the loop: every later row of the sheet is processed exactly as it would
\* have been, and the rows already appended stay in the list.
C5_ExceptionContained == [][C5_Steps]_vars

\* row 3 raised between two rows that were appended
C5_Witness ==
    /\ rpc = "rows"
    /\ row_idx = 5
    /\ Len(reader.questionList) = 2
    /\ \E i \in 1..Len(reader.logstring) :
          reader.logstring[i] = Msg("ERROR", "Unexpected", Title, "", "3")

\* the positions of the questions of the sheet that bear the name
Positions(name) ==
    {i \in 1..Len(reader.questionList) : reader.questionList[i].fieldName = name}

\* the skip lines of the question at position p that have the four words
\* of a skip line
SkipLines(p) ==
    LET ls == IF reader.questionList[p].skip = "" THEN <<>>
              ELSE split_lines(reader.questionList[p].skip)
    IN  {ls[i] : i \in {j \in 1..Len(ls) : Len(skip_words(ls[j])) >= 4}}

\* the target of a skip line: its last word
Target(skip) == Strip(skip_words(skip)[Len(skip_words(skip))])

\* the checked field of a skip line: its third word
Checked(skip) == StripCh(Strip(skip_words(skip)[3]), ",")

\* name is no field of the sheet, or no field of that name lies after p
BadTarget(name, p) == \A i \in Positions(name) : i <= p

\* the lines of the given kinds that the step logged for the field about arg
Diagnostics(kinds, field, arg) ==
    {i \in 1..Len(NewLines) : /\ NewLines[i].sev = "ERROR"
                              /\ NewLines[i].kind \in kinds
                              /\ NewLines[i].field = field
                              /\ NewLines[i].arg = arg}

\* _check_logic_field_names has just run
LogicChecked == rpc = "logic" /\ rpc' = "skip"

\* _check_skip_to_field_names has just run
SkipChecked == rpc = "skip" /\ rpc' = "maxchars"

\* at the end of a sheet: a skip whose target is not a later field leaves
\* the sheet and the run failed, with an error in the log
C6_State ==
    rpc = "return" =>
        \A p \in 1..Len(reader.questionList) : \A skip \in SkipLines(p) :
            BadTarget(Target(skip), p) =>
                /\ reader.worksheetErrorsEncountered
                /\ reader.errorsEncountered
                /\ Lines(reader.logstring, "ERROR") # {}

\* when the skip check runs: each target that is not a later field gets a
\* diagnostic of the question that names it
C6_Steps ==
    SkipChecked =>
        \A p \in 1..Len(reader.questionList) : \A skip \in SkipLines(p) :
            /\ Positions(Target(skip)) = {} =>
                  Diagnostics({"Skip.targetNonexistent"},
                              reader.questionList[p].fieldName, Target(skip)) # {}
            /\ BadTarget(Target(skip), p) =>
                  Diagnostics({"Skip.targetBefore", "Skip.targetCurrent",
                               "Skip.targetNonexistent"},
                              reader.questionList[p].fieldName, Target(skip)) # {}

C7_Steps ==
    LogicChecked =>
        \A p \in 1..Len(reader.questionList) :
            \A k \in 1..Len(reader.questionList[p].logicChecks) :
                \A ref \in Range(referenced(reader.questionList[p].logicChecks[k], FALSE)) :
                    (\A i \in Positions(ref) : i > p) =>
                        Diagnostics({"LogicCheck.nonexistent", "LogicCheck.after"},
                                    reader.questionList[p].fieldName, ref) # {}

\* C7: every identifier of the part before ';' of a logic check (quoted
\* literals and the keywords and/or/not removed) must name a field at or
\* before the question; an identifier that names no field, or a field
\* positioned after the question, gets a diagnostic naming it.
C7_LogicReferences == [][C7_Steps]_vars

\* the statement of C8 on the step of the skip reference check
C8_Steps ==
    SkipChecked =>
        \A p \in 1..Len(reader.questionList) : \A skip \in SkipLines(p) :
            LET found == Diagnostics({"Skip.checkAfter", "Skip.checkNonexistent"},
                                     reader.questionList[p].fieldName, Checked(skip))
            IN  IF \E i \in Positions(Checked(skip)) : i <= p
                THEN found = {}
                ELSE found # {}

\* C8: the checked field of a skip line (its third word) must be a field of
\* the sheet not positioned after the question: one at or before the
\* question gets no diagnostic, a later or nonexistent one gets one.
C8_SkipCheckedField == [][C8_Steps]_vars

\* _check_duplicate_columns has just run
DupChecked == rpc = "dups" /\ rpc' = "noerr"

\* the positions of the rows other than information rows that bear the name
Bearers(name) ==
    {i \in Positions(name) : reader.questionList[i].questionType # "information"}

\* the names that occur more than once among the rows other than
\* information rows
Duplicated ==
    {n \in {reader.questionList[i].fieldName : i \in 1..Len(reader.questionList)} :
        Cardinality(Bearers(n)) > 1}

\* the statement of C9 on the step of the duplicate check
C9_Steps ==
    DupChecked =>
        LET found == {i \in 1..Len(NewLines) : NewLines[i].kind = "Duplicate.fieldnames"}
        IN  IF Duplicated = {}
            THEN NewLines = <<>>
            ELSE /\ Len(NewLines) = 1
                 /\ found = {1}
                 /\ NewLines[1].sev = "ERROR"
                 /\ Len(Split(NewLines[1].arg, ",")) = Cardinality(Duplicated)
                 /\ Range(Split(NewLines[1].arg, ",")) = Duplicated

ShapeViolations(name) ==
    {v \in {"leading digit", "leading underscore", "internal space",
            "mixed case", "invalid character"} :
        \/ v = "leading digit" /\ IsDigit(Ch(name, 1))
        \/ v = "leading underscore" /\ Ch(name, 1) = "_"
        \/ v = "internal space" /\ \E i \in 1..Len(name) : Ch(name, i) = " "
        \/ v = "mixed case" /\ \E i \in 1..Len(name) : IsUpperLetter(Ch(name, i))
        \/ v = "invalid character" /\ \E i \in 1..Len(name) :
               /\ ~IsLowerLetter(Ch(name, i))
               /\ ~IsUpperLetter(Ch(name, i))
               /\ ~IsDigit(Ch(name, i))
               /\ Ch(name, i) \notin {"_", " "}}

\* _check_field_name has just run
NameChecked == pc = "check_field_name" /\ pc' = "checked"

\* the statement of C10 on the step of the name check
C10_Steps ==
    NameChecked =>
        LET name == get_cell_trim(cur.FieldName)
        IN  /\ ShapeViolations(name) = {} => reader' = reader
            /\ Cardinality(ShapeViolations(name)) = 1 =>
                  /\ Len(NewLines) = 1
                  /\ NewLines[1].sev = "ERROR"
                  /\ NewLines[1].arg = name

\* C10: the name check gives no diagnostic for a field name that satisfies
\* the shape rule, and exactly one diagnostic referencing the name for a
\* name with a single shape violation (leading digit, leading underscore,
\* internal space, mixed case, or a character outside the letters, the
\* digits and the underscore).
C10_FieldNameShape == [][C10_Steps]_vars

\* a name whose only violation is an upper-case letter, diagnosed once
C10_Witness ==
    /\ pc = "checked"
    /\ ShapeViolations(get_cell_trim(cur.FieldName)) = {"mixed case"}
    /\ Len(reader.logstring) = 2
    /\ reader.logstring[2].kind = "FieldName.notLowercase"
    /\ reader.logstring[2].arg = get_cell_trim(cur.FieldName)

\* the diagnostic of the first rule the name breaks when the rules are
\* taken in the order: empty, starts with a digit or an underscore, a
\* character other than letter, digit, underscore, not all lower-case,
\* contains a space; "" when the name breaks none
FirstRuleInStatedOrder(name) ==
    IF name = "" THEN "FieldName.empty"
    ELSE IF IsDigit(Ch(name, 1)) THEN "FieldName.startsWithNumber"
    ELSE IF Ch(name, 1) = "_" THEN "FieldName.startsWithUnderscore"
    ELSE IF \E i \in 1..Len(name) : ~IsAlnum(Ch(name, i)) /\ Ch(name, i) # "_"
         THEN "FieldName.invalid"
    ELSE IF \E i \in 1..Len(name) : IsUpperLetter(Ch(name, i))
         THEN "FieldName.notLowercase"
    ELSE IF \E i \in 1..Len(name) : Ch(name, i) = " "
         THEN "FieldName.containsSpace"
    ELSE ""

\* the statement of C11 on the step of the name check
C11_Steps ==
    NameChecked =>
        LET rule == FirstRuleInStatedOrder(get_cell_trim(cur.FieldName))
        IN  IF rule = "" THEN NewLines = <<>>
            ELSE /\ Len(NewLines) = 1
                 /\ NewLines[1].kind = rule

\* C11: when a field name breaks several shape rules at once, only the
\* first matching rule fires, the rules being evaluated in the order empty,
\* starts with a digit or an underscore, contains a character other than
\* letter, digit, underscore, not all lower-case, contains a space; each
\* rule has its own diagnostic.
C11_FirstRuleFires == [][C11_Steps]_vars

-----------------------------------------------------------------------------
(* The filter lines of a response directive: sheets whose rows carry one  *)
(* filter line 'column op value' each.                                    *)

MaxFilterRows == 1

\* the filter lines: a column, an operator of the pattern or none (""), a
\* value, and the blank (or nothing) written around the operator
FilterLines ==
    [column : {"a", "b1", "c_d"},
     operator : {"", "=", "!=", "<>", ">", "<", ">=", "<="},
     value : {"5", "x y", "z"},
     sep : {" ", ""}]

\* the text of a filter line
FilterText(f) ==
    IF f.operator = "" THEN f.column \o " " \o f.value
    ELSE f.column \o f.sep \o f.operator \o f.sep \o f.value

\* a combobox row whose response directive has the filter line
FilterRow(f) == SourceRow("s", KnownSource \o "\nfilter: " \o FilterText(f))

FilterRows == {FilterRow(f) : f \in FilterLines}

NextFilter ==
    \/ BeginSheet
    \/ ReadHeader({CorrectHeaders})
    \/ ReadRow(FilterRows, MaxFilterRows)
    \/ EndRows
    \/ WholeSheetChecks
    \/ Collect

SpecFilter == InitSheet /\ [][NextFilter]_vars

\* the escaped markup form of an operator, '=' for none
EscapedForm(operator) ==
    CASE operator = ">" -> "&gt;"
      [] operator = "<" -> "&lt;"
      [] operator = ">=" -> "&gt;="
      [] operator = "<=" -> "&lt;="
      [] operator = "" -> "="
      [] OTHER -> operator

\* the statement of C12 on the step that reads a row with a filter line
C12_Steps ==
    RowRead =>
        \A f \in FilterLines :
            cur' = FilterRow(f) =>
                /\ Len(reader'.questionList) = Len(reader.questionList) + 1
                /\ reader'.questionList[Len(reader'.questionList)].responseFilters
                      = <<Filter(f.column, EscapedForm(f.operator), f.value)>>

\* C12: a filter line 'column op value' with op one of =, !=, <>, >, <, >=,
\* <= gives a Filter with that column, that value and the operator in
\* escaped markup form (&gt;, &lt;, &gt;=, &lt;=; =, != and <> unchanged);
\* a filter line without operator gives the operator '='.
C12_FilterOperators == [][C12_Steps]_vars

-----------------------------------------------------------------------------
(* Calculation directives: the Responses cells of rows that hold a calc:  *)
(* block.  A block is described by the lines it holds; "" and <<>> stand   *)
(* for a line that is absent.                                               *)

MaxCalcRows == 1

NoBlock ==
    [kind |-> "", sql |-> "", whens |-> <<>>, value |-> "", field |-> "",
     unit |-> "", operator |-> "", parts |-> <<>>]

PartChoices ==
    { <<>>, <<"constant 1">>, <<"constant 1", "constant 2">>,
      <<"constant 1", "bogus 2">>, <<"constant 1", "constant">>,
      <<"constant 1", "lookup a", "query select 1">> }

CalcBlocks ==
    {[NoBlock EXCEPT !.kind = k] : k \in {"", "nosuch"}}
    \cup {[NoBlock EXCEPT !.kind = "query", !.sql = s] : s \in {"", "select 1"}}
    \cup {[NoBlock EXCEPT !.kind = "case", !.whens = w] :
             w \in {<<>>, <<"a = 1 => 2">>, <<"nonsense">>, <<"nonsense", "b > 3 => 4">>}}
    \cup {[NoBlock EXCEPT !.kind = "constant", !.value = v] : v \in {"", "1"}}
    \cup {[NoBlock EXCEPT !.kind = "lookup", !.field = f] : f \in {"", "a"}}
    \cup {[NoBlock EXCEPT !.kind = "math", !.operator = o, !.parts = p] :
             o \in {"", "+", "%"}, p \in PartChoices}
    \cup {[NoBlock EXCEPT !.kind = "concat", !.parts = p] :
             p \in {<<>>, <<"constant 1">>, <<"bogus 1">>}}
    \cup {[NoBlock EXCEPT !.kind = k, !.field = f, !.value = v] :
             k \in {"age_from_date", "age_at_date"}, f \in {"", "dob"},
             v \in {"", "today"}}
    \cup {[NoBlock EXCEPT !.kind = "date_offset", !.field = f, !.value = v] :
             f \in {"", "dob"}, v \in {"", "+3d", "3d", "+3x"}}
    \cup {[NoBlock EXCEPT !.kind = "date_diff", !.field = f, !.value = v, !.unit = u] :
             f \in {"", "dob"}, v \in {"", "today"}, u \in {"", "d", "W", "q"}}

\* the line "key: value" of a block, nothing when the value is absent
BlockLine(key, value) == IF value = "" THEN "" ELSE "\n" \o key \o ": " \o value

RECURSIVE BlockLines(_, _)
BlockLines(key, values) ==
    IF values = <<>> THEN ""
    ELSE "\n" \o key \o ": " \o Head(values) \o BlockLines(key, Tail(values))

\* the text of the Responses cell that holds the block
BlockText(b) ==
    "calc: " \o b.kind \o BlockLine("sql", b.sql) \o BlockLines("when", b.whens)
        \o BlockLine("field", b.field) \o BlockLine("value", b.value)
        \o BlockLine("unit", b.unit) \o BlockLine("operator", b.operator)
        \o BlockLines("part", b.parts)

\* the block on an automatic question
CalcBlockRow(b) == CalcRow("c", BlockText(b))

\* blocks on questions that are not automatic, and on automatic questions
\* that bear a built-in name
FewBlocks ==
    {[NoBlock EXCEPT !.kind = "nosuch"],
     [NoBlock EXCEPT !.kind = "constant", !.value = "1"],
     [NoBlock EXCEPT !.kind = "math"]}

NotAutomaticRow(b, questionType) ==
    [BaseRow("c") EXCEPT !.QuestionType = questionType, !.Responses = BlockText(b)]

BuiltInRow(b, name) == CalcRow(name, BlockText(b))

CalcBlockRows ==
    {CalcBlockRow(b) : b \in CalcBlocks}
    \cup {NotAutomaticRow(b, t) : b \in FewBlocks, t \in {"text", "combobox"}}
    \cup {BuiltInRow(b, n) : b \in FewBlocks, n \in BUILT_IN_AUTO_FIELDS}

NextCalc ==
    \/ BeginSheet
    \/ ReadHeader({CorrectHeaders})
    \/ ReadRow(CalcBlockRows, MaxCalcRows)
    \/ EndRows
    \/ WholeSheetChecks
    \/ Collect

SpecCalc == InitSheet /\ [][NextCalc]_vars

\* the Question the row just read has appended
Appended == reader'.questionList[Len(reader'.questionList)]

\* the calculation fields of the Question are those of a new Question
NoCalculation(q) ==
    \A f \in {"calculationType", "calculationQuerySql", "calculationQueryParameters",
              "calculationCaseConditions", "calculationCaseElse",
              "calculationConstantValue", "calculationLookupField",
              "calculationMathOperator", "calculationMathParts",
              "calculationConcatSeparator", "calculationConcatParts",
              "calculationUnit"} : q[f] = NewQuestion[f]

TenKinds ==
    {"query", "case", "constant", "lookup", "math", "concat", "age_from_date",
     "age_at_date", "date_offset", "date_diff"}

C13_Steps ==
    RowRead =>
       /\ Len(reader'.questionList) = Len(reader.questionList) + 1
       /\ \A b \in FewBlocks :
             /\ \A t \in {"text", "combobox"} :
                   cur' = NotAutomaticRow(b, t) =>
                      /\ Len(NewLines) = 1
                      /\ NewLines[1].sev = "ERROR"
                      /\ NewLines[1].kind = "Calculation.notAutomatic"
                      /\ NoCalculation(Appended)
             /\ \A n \in BUILT_IN_AUTO_FIELDS :
                   cur' = BuiltInRow(b, n) =>
                      /\ NewLines = <<>>
                      /\ reader'.errorsEncountered = reader.errorsEncountered
                      /\ reader'.worksheetErrorsEncountered
                            = reader.worksheetErrorsEncountered
                      /\ NoCalculation(Appended)
       /\ \A b \in CalcBlocks :
             cur' = CalcBlockRow(b) =>
                (Appended.calculationType # "None") = (b.kind \in TenKinds)

\* C13: a Responses cell that starts with calc: is parsed as a calculation
\* only on an automatic question whose name is none of starttime, stoptime,
\* uniqueid, swver, survey_id, lastmod; on a question that is not automatic
\* the row logs exactly one error and sets no calculation field; on an
\* automatic question with one of those names the row logs nothing, leaves
\* both error flags as they were and sets no calculation field.
C13_CalcOnlyOnAutomatic == [][C13_Steps]_vars

\* a calc: block of an unknown kind on the automatic question starttime has
\* been read: no error line, no flag, no calculation
C13_Witness ==
    /\ rpc = "rows" /\ row_idx = 3
    /\ cur = BuiltInRow([NoBlock EXCEPT !.kind = "nosuch"], "starttime")
    /\ Len(reader.questionList) = 1
    /\ reader.questionList[1].calculationType = "None"
    /\ Lines(reader.logstring, "ERROR") = {}
    /\ ~reader.errorsEncountered

\* the kinds of the diagnostics of the required-field validation
ValidationKinds ==
    {"Query.missingSql", "Case.missingWhen", "Constant.missingValue",
     "Lookup.missingField", "Math.missingOperator", "Math.fewerThan2Parts",
     "Concat.noParts", "AgeFromDate.missingField", "AgeFromDate.missingValue",
     "AgeAtDate.missingField", "AgeAtDate.missingValue", "DateOffset.missingField",
     "DateOffset.missingValue", "DateOffset.invalidValue", "DateDiff.missingField",
     "DateDiff.missingValue", "DateDiff.missingUnit", "DateDiff.invalidUnit"}

\* the part lines and the when lines of CalcBlocks that are well formed
GoodParts == {"constant 1", "constant 2", "lookup a", "query select 1"}
GoodWhens == {"a = 1 => 2", "b > 3 => 4"}

\* the number of lines of a sequence that lie in a set
Accepted(lines, good) == Cardinality({i \in 1..Len(lines) : lines[i] \in good})

\* sign, digits, one of d w m y
SignDigitsUnit(v) ==
    /\ Len(v) >= 3
    /\ Ch(v, 1) \in {"+", "-"}
    /\ \A i \in 2..(Len(v) - 1) : IsDigit(Ch(v, i))
    /\ Ch(v, Len(v)) \in {"d", "w", "m", "y"}

\* kind if the item is missing or invalid
Item(bad, kind) == IF bad THEN {kind} ELSE {}

\* the required items of a block that are missing or invalid, each named by
\* the kind of the diagnostic that reports it
MissingItems(b) ==
    CASE b.kind = "query" -> Item(b.sql = "", "Query.missingSql")
      [] b.kind = "case" ->
            Item(Accepted(b.whens, GoodWhens) = 0, "Case.missingWhen")
      [] b.kind = "constant" -> Item(b.value = "", "Constant.missingValue")
      [] b.kind = "lookup" -> Item(b.field = "", "Lookup.missingField")
      [] b.kind = "math" ->
            Item(b.operator \notin {"+", "-", "*", "/"}, "Math.missingOperator")
            \cup Item(Accepted(b.parts, GoodParts) < 2, "Math.fewerThan2Parts")
      [] b.kind = "concat" ->
            Item(Accepted(b.parts, GoodParts) = 0, "Concat.noParts")
      [] b.kind = "age_from_date" ->
            Item(b.field = "", "AgeFromDate.missingField")
            \cup Item(b.value = "", "AgeFromDate.missingValue")
      [] b.kind = "age_at_date" ->
            Item(b.field = "", "AgeAtDate.missingField")
            \cup Item(b.value = "", "AgeAtDate.missingValue")
      [] b.kind = "date_offset" ->
            Item(b.field = "", "DateOffset.missingField")
            \cup Item(b.value = "", "DateOffset.missingValue")
            \cup Item(b.value # "" /\ ~SignDigitsUnit(b.value), "DateOffset.invalidValue")
      [] b.kind = "date_diff" ->
            Item(b.field = "", "DateDiff.missingField")
            \cup Item(b.value = "", "DateDiff.missingValue")
            \cup Item(b.unit = "", "DateDiff.missingUnit")
            \cup Item(b.unit \notin {"", "d", "w", "m", "y", "D", "W", "M", "Y"},
                      "DateDiff.invalidUnit")
      [] OTHER -> {}

\* the new log lines of a kind
LinesOfKind(kind) == {i \in 1..Len(NewLines) : NewLines[i].kind = kind}

C14_Steps ==
    RowRead =>
       \A b \in CalcBlocks :
          cur' = CalcBlockRow(b) =>
             \A kind \in ValidationKinds :
                /\ Cardinality(LinesOfKind(kind))
                      = (IF kind \in MissingItems(b) THEN 1 ELSE 0)
                /\ \A i \in LinesOfKind(kind) : NewLines[i].sev = "ERROR"

\* C14: when the calc: block of an automatic question has been consumed, the
\* required-field validation logs exactly one error for each required item of
\* the block's kind that is missing or invalid, and none for an item that is
\* present and valid.
C14_OnePerMissingItem == [][C14_Steps]_vars

\* a date_diff block with its field, without a value and with the unit q has
\* been read: one error for the value and one for the unit
C14_Witness ==
    /\ rpc = "rows" /\ row_idx = 3
    /\ cur = CalcBlockRow([NoBlock EXCEPT !.kind = "date_diff", !.field = "dob",
                                          !.unit = "q"])
    /\ {reader.logstring[i].kind : i \in Lines(reader.logstring, "ERROR")}
          = {"DateDiff.missingValue", "DateDiff.invalidUnit"}
    /\ Cardinality(Lines(reader.logstring, "ERROR")) = 2

C15_Steps ==
    RowRead =>
       \A b \in CalcBlocks :
          cur' = CalcBlockRow(b) /\ b.kind = "math" =>
             /\ Accepted(b.parts, GoodParts) < 2 =>
                   Cardinality(LinesOfKind("Math.fewerThan2Parts")) = 1
             /\ b.operator \in {"+", "-", "*", "/"}
                  /\ b.parts = <<"constant 1", "constant 2">> => NewLines = <<>>

\* C15: a calc: math block on an automatic question whose part lines yield
\* fewer than 2 accepted parts logs the 'must have at least 2 parts' error, a
\* part line that is malformed not being counted; a math block with a valid
\* operator and exactly 2 valid constant parts logs nothing.
C15_MathParts == [][C15_Steps]_vars

\* a math block with the operator +, one valid part and one part of an
\* unknown type has been read: the part is refused and the block has fewer
\* than 2 parts
C15_Witness ==
    /\ rpc = "rows" /\ row_idx = 3
    /\ cur = CalcBlockRow([NoBlock EXCEPT !.kind = "math", !.operator = "+",
                                          !.parts = <<"constant 1", "bogus 2">>])
    /\ Len(reader.questionList) = 1
    /\ Len(reader.questionList[1].calculationMathParts) = 1
    /\ {reader.logstring[i].kind : i \in Lines(reader.logstring, "ERROR")}
          = {"Calculation.invalidPartType", "Math.fewerThan2Parts"}

\* the sub-fields the kind of the calculation of q requires are non-empty
RequiredPresent(q) ==
    CASE q.calculationType = "Query" -> q.calculationQuerySql # ""
      [] q.calculationType = "Case" -> q.calculationCaseConditions # <<>>
      [] q.calculationType = "Constant" -> q.calculationConstantValue # ""
      [] q.calculationType = "Lookup" -> q.calculationLookupField # ""
      [] q.calculationType = "Math" ->
            q.calculationMathOperator # "" /\ Len(q.calculationMathParts) >= 2
      [] q.calculationType = "Concat" -> Len(q.calculationConcatParts) >= 1
      [] q.calculationType \in {"AgeFromDate", "AgeAtDate", "DateOffset"} ->
            q.calculationLookupField # "" /\ q.calculationConstantValue # ""
      [] q.calculationType = "DateDiff" ->
            /\ q.calculationLookupField # "" /\ q.calculationConstantValue # ""
            /\ q.calculationUnit # ""
      [] OTHER -> FALSE

\* the automatic Questions of the list; under SpecCalc the Responses cell of
\* every row starts with calc:
AutomaticWithCalc ==
    {i \in 1..Len(reader.questionList) :
        reader.questionList[i].questionType = "automatic"}

\* C16 as stated: in a sheet that has recorded no error, each automatic
\* Question whose Responses cell starts with calc: has a calculation of one
\* of the ten kinds and every sub-field its kind requires is non-empty.
C16_CalcComplete ==
    ~reader.worksheetErrorsEncountered =>
       \A i \in AutomaticWithCalc : RequiredPresent(reader.questionList[i])

\* C16, amended: in a sheet that has recorded no error, each automatic
\* Question whose Responses cell starts with calc: and whose name is none of
\* the built-in names has a calculation of one of the ten kinds and every
\* sub-field its kind requires is non-empty.
C16_CalcCompleteUnlessBuiltIn ==
    ~reader.worksheetErrorsEncountered =>
       \A i \in AutomaticWithCalc :
          Lower(reader.questionList[i].fieldName) \notin
                {"starttime", "stoptime", "uniqueid", "swver", "survey_id", "lastmod"}
             => RequiredPresent(reader.questionList[i])

\* an error-free sheet holds an automatic question with a complete date_diff
\* calculation
C16_Witness ==
    /\ rpc = "rows" /\ row_idx = 3
    /\ ~reader.worksheetErrorsEncountered
    /\ cur = CalcBlockRow([NoBlock EXCEPT !.kind = "date_diff", !.field = "dob",
                                          !.value = "today", !.unit = "W"])
    /\ Len(reader.questionList) = 1
    /\ reader.questionList[1].calculationType = "DateDiff"
    /\ reader.questionList[1].calculationUnit = "W"

-----------------------------------------------------------------------------
(* MaxCharacters: sheets whose rows differ in the MaxCharacters cell *)

MaxMaxCharsRows == 1

MaxCharsCells ==
    {"", "1", "5", "=5", "0", "=0", "2000", "2001", "=2001", "0005", "abc", "=",
     "-9"}

MaxCharsRows ==
    {[BaseRow("a") EXCEPT !.FieldType = t, !.MaxCharacters = m] :
        t \in {"text", "integer"}, m \in MaxCharsCells}

NextMaxChars ==
    \/ BeginSheet
    \/ ReadHeader({CorrectHeaders})
    \/ ReadRow(MaxCharsRows, MaxMaxCharsRows)
    \/ EndRows
    \/ WholeSheetChecks
    \/ Collect

SpecMaxChars == InitSheet /\ [][NextMaxChars]_vars

\* "-9", or the digits of an integer from 1 to 2000
SentinelOrInRange(m) == m = "-9" \/ (IsDigits(m) /\ ToInt(m) \in 1..2000)

\* a non-empty cell that, after an optional leading =, is not digits only or
\* lies outside 1..2000
OutsideMaxChars(cell) ==
    /\ cell # ""
    /\ LET n == IF Ch(cell, 1) = "=" THEN SubSeq(cell, 2, Len(cell)) ELSE cell
       IN  ~IsDigits(n) \/ ToInt(n) \notin 1..2000

C17_Steps ==
    /\ rpc' = "return" /\ ~reader'.worksheetErrorsEncountered =>
          \A i \in 1..Len(reader'.questionList) :
             SentinelOrInRange(reader'.questionList[i].maxCharacters)
    /\ RowRead /\ OutsideMaxChars(cur'.MaxCharacters) =>
          \E i \in 1..Len(NewLines) :
             /\ NewLines[i].sev = "ERROR"
             /\ NewLines[i].kind \in {"MaxCharacters.nonNumeric",
                                      "MaxCharacters.outOfRange"}

\* C17: in a sheet that ends without error the maxCharacters stored in each
\* Question is "-9" or an integer from 1 to 2000, and a row whose
\* MaxCharacters cell is non-empty and, after an optional leading =, is not
\* digits only or lies outside 1..2000 logs an error.
C17_MaxCharacters == [][C17_Steps]_vars

-----------------------------------------------------------------------------
(* The emitter: sheets without error whose questions bear every kind of   *)
(* child element                                                            *)

MaxEmitRows == 2

EmitRows ==
    { [BaseRow("a") EXCEPT !.Responses = "mask: 99", !.LowerRange = "1",
                           !.UpperRange = "9",
                           !.LogicCheck = "a > 0; 'm'\nunique; 'u'\na < 9; 'n'",
                           !.DontKnow = "True", !.Refuse = "True", !.NA = "True",
                           !.Skip = "preskip: if a = 1, skip to r\npostskip: if a = 2, skip to r"],
      [BaseRow("p") EXCEPT !.Skip = "postskip: if p = 2, skip to z", !.NA = "True",
                           !.DontKnow = "False"],
      [BaseRow("r") EXCEPT !.QuestionType = "radio", !.FieldType = "integer",
                           !.MaxCharacters = "", !.Responses = "1:Yes\n2:No",
                           !.LogicCheck = "r = 1; 'm'", !.Refuse = "True"],
      SourceRow("s", KnownSource),
      [BaseRow("d") EXCEPT !.QuestionType = "date", !.FieldType = "date",
                           !.MaxCharacters = "", !.LowerRange = "-1y",
                           !.UpperRange = "0", !.LogicCheck = "unique; 'u'"],
      CalcRow("c", KnownCalc),
      CalcRow("starttime", ""),
      Info("x"),
      BaseRow("z") }

NextEmit ==
    \/ BeginSheet
    \/ ReadHeader({CorrectHeaders})
    \/ ReadRow(EmitRows, MaxEmitRows)
    \/ EndRows
    \/ WholeSheetChecks
    \/ Collect
    \/ Gate
    \/ EmitDocument

SpecEmit == InitSheet /\ [][NextEmit]_vars

\* the place of a child element in the stated order; numeric_check and
\* date_range share a place
Rank(child) ==
    CASE child = "text" -> 1
      [] child = "calculation" -> 2
      [] child = "maxCharacters" -> 3
      [] child = "mask" -> 4
      [] child = "unique_check" -> 5
      [] child \in {"numeric_check", "date_range"} -> 6
      [] child = "logic_check" -> 7
      [] child = "responses" -> 8
      [] child = "preskip" -> 9
      [] child = "postskip" -> 10
      [] child = "dont_know" -> 11
      [] child = "refuse" -> 12
      [] child = "na" -> 13
      [] OTHER -> 0

\* the children follow the stated order; only logic_check may repeat
InStatedOrder(kids) ==
    /\ \A i \in 1..Len(kids) : Rank(kids[i]) > 0
    /\ \A i, j \in 1..Len(kids) :
          i < j => \/ Rank(kids[i]) < Rank(kids[j])
                   \/ kids[i] = "logic_check" /\ kids[j] = "logic_check"

\* write_xml has written a document
Written == pc = "emit" /\ Len(proc'.out) = Len(proc.out) + 1

C18_Steps ==
    Written =>
       LET doc == proc'.out[Len(proc'.out)].content
           qlist == proc.question_list_cache[wsi].qlist
       IN  /\ Len(doc) = Len(qlist) + 1
           /\ \A i \in 1..Len(qlist) :
                 /\ doc[i].fieldname = qlist[i].fieldName
                 /\ doc[i].type = qlist[i].questionType
                 /\ InStatedOrder(doc[i].children)
           /\ doc[Len(doc)].fieldname = "end_of_questions"
           /\ doc[Len(doc)].type = "information"

\* C18: the document holds one question element for each Question of the
\* list, in list order, each with its children in the order text,
\* calculation, maxCharacters, mask, unique_check, numeric_check or
\* date_range, logic_check(s), responses, preskip, postskip, dont_know,
\* refuse, na, and then one information question end_of_questions as the
\* last element, also when the list is empty.
C18_DocumentOrder == [][C18_Steps]_vars

\* a document has been written whose first question bears eleven children,
\* two logic checks among them, and whose second bears a responses element
\* after its logic check
C18_Witness ==
    /\ proc.out # <<>>
    /\ LET doc == proc.out[Len(proc.out)].content
       IN  /\ Len(doc) = 3
           /\ doc[1].children
                 = <<"text", "maxCharacters", "mask", "unique_check", "numeric_check",
                     "logic_check", "logic_check", "preskip", "postskip", "dont_know",
                     "refuse", "na">>
           /\ doc[2].children = <<"text", "logic_check", "responses", "refuse">>
           /\ doc[3].fieldname = "end_of_questions"

\* the document of a sheet without rows holds end_of_questions alone
C18_WitnessEmpty ==
    /\ proc.out # <<>>
    /\ proc.out[Len(proc.out)].content
          = <<Element("information", "end_of_questions", <<"text">>)>>

-----------------------------------------------------------------------------
(* The outputs of a run *)

\* the files of a kind the run has written so far
Outputs(what) == {i \in 1..Len(proc.out) : proc.out[i].what = what}

\* C19: the manifest and the archive are produced only in a run that is
\* successful throughout: once the failure flag of the run is set, by a
\* diagnostic of a sheet or by a document that fails the syntax validation,
\* the run has produced, and produces, neither of them.
C19_OnlyOnSuccess ==
    proc.errorsEncountered => Outputs("manifest") = {} /\ Outputs("zip") = {}

\* the rows of the runs that are followed to their end: a valid row and a
\* row with an error
MaxLogRows == 1

LogRows == {BaseRow("a"), [BaseRow("b") EXCEPT !.FieldType = "nosuchtype"]}

NextLog ==
    \/ ExcelMissing
    \/ LoadWorkbook
    \/ BeginSheet
    \/ ReadHeader({CorrectHeaders})
    \/ ReadRow(LogRows, MaxLogRows)
    \/ EndRows
    \/ WholeSheetChecks
    \/ Collect
    \/ Gate
    \/ EmitDocument
    \/ WriteManifest
    \/ EndOfLog
    \/ CreateZipFile
    \/ WriteLogfile

\* the steps of run other than the read of one more row
Progress ==
    \/ ExcelMissing
    \/ LoadWorkbook
    \/ BeginSheet
    \/ ReadHeader({CorrectHeaders})
    \/ EndRows
    \/ WholeSheetChecks
    \/ Collect
    \/ Gate
    \/ EmitDocument
    \/ WriteManifest
    \/ EndOfLog
    \/ CreateZipFile
    \/ WriteLogfile

\* run is a sequential program: it keeps taking its next step until it
\* returns or an exception leaves it, and the row loop of a sheet ends at
\* worksheet.max_row
SpecLog == Init /\ [][NextLog]_vars /\ WF_vars(Progress)

\* every run returns or is left by an exception
Terminates == <>(pc \in {"done", "raised"})

\* C20: every run eventually writes the log file, whichever path it takes:
\* input missing, a sheet failed, all sheets valid, a document failing the
\* validation, or a failure raised while a document is written or the
\* archive is built.
C20_LogWritten == <>(Outputs("log") # {})

\* write_xml has written the document of a sheet
DocumentWritten == Written /\ proc'.out[Len(proc'.out)].what = "xml"

C21_Steps == DocumentWritten => ~proc.errorsEncountered

\* C21: whenever the document of a sheet is written the failure flag of the
\* run is clear, for the first document of a run and for each later one.
C21_FlagClearWhenWritten == [][C21_Steps]_vars

-----------------------------------------------------------------------------
(* The sheets of one run.  Each sheet is read by a reader of its own     *)
(* (line 51 of processor.py); the runs below have two sheets, in either  *)
(* order, of at most MaxIndepRows rows each.                             *)

MaxIndepRows == 1

InitIndep ==
    /\ pc = "sheets"
    /\ proc = NewProcessor
    /\ wb \in {<<"a_dd", "b_xml">>, <<"b_xml", "a_dd">>}
    /\ wsi = 1
    /\ rpc = "idle"
    /\ reader = NewReader
    /\ row_idx = 0
    /\ cur = NoRow

NextIndep ==
    \/ BeginSheet
    \/ ReadHeader({CorrectHeaders, WrongHeaders})
    \/ ReadRow(RunRows, MaxIndepRows)
    \/ EndRows
    \/ WholeSheetChecks
    \/ Collect

SpecIndep == InitIndep /\ [][NextIndep]_vars

\* ExcelReader.create_question_list on a reader of its own: the sheet title
\* with the header row headers and the data rows rows
create_question_list(title, headers, rows) ==
    LET RECURSIVE read(_, _)
        read(r, i) ==
            IF i > Len(rows) THEN r
            ELSE read(process_row(r, rows[i], title, i + 1), i + 1)
        r0 == read(process_header(begin_question_list(NewReader, title),
                                  headers, title), 1)
    IN  IF after_rows(r0) = "logic"
        THEN no_errors_found(
                 check_duplicate_columns(
                     check_required_max_characters(
                         check_skip_to_field_names(
                             check_logic_field_names(r0, title, FALSE), title),
                         title),
                     title),
                 title)
        ELSE r0

\* the header the sheet being read began with, told from its log
HeaderRead ==
    IF \E i \in 1..Len(reader.logstring) : reader.logstring[i].kind = "Header.incorrect"
    THEN WrongHeaders ELSE CorrectHeaders

\* the data rows of the sheet being read, for the sheets of at most one row
RowsRead == IF row_idx = 3 THEN <<cur>> ELSE <<>>

\* the sheet being read, read alone
Alone == create_question_list(Title, HeaderRead, RowsRead)

SheetCollected == pc = "reading" /\ pc' = "sheets"

C22_Steps ==
    (SheetCollected /\ row_idx <= 3) =>
        /\ proc'.question_list_cache =
               Append(proc.question_list_cache,
                      [title |-> Title, qlist |-> Alone.questionList])
        /\ proc'.logstring = proc.logstring \o Alone.logstring
        /\ proc'.errorsEncountered =
               (proc.errorsEncountered \/ Alone.errorsEncountered)
        /\ \A f \in {"generated_files", "xml_files", "out", "result"} :
               proc'[f] = proc[f]

\* C22: the Question list and the diagnostics a sheet yields are those it
\* yields when read alone, whatever the other sheets of the run hold, in
\* whichever order they come and whether or not they failed; the sheets
\* share nothing but the log of the run, which each extends, and the failure
\* flag of the run, which each may set.
C22_SheetsIndependent == [][C22_Steps]_vars

\* a valid sheet has been collected after a sheet that failed
C22_Witness ==
    /\ pc = "sheets"
    /\ wsi = 3
    /\ proc.errorsEncountered
    /\ Len(proc.question_list_cache) = 2
    /\ proc.question_list_cache[2].qlist # <<>>
    /\ SheetErrors(proc.logstring) # {}
    /\ \A i \in SheetErrors(proc.logstring) :
           proc.logstring[i].ws = proc.question_list_cache[1].title

\* the row loop of a sheet has ended
RowsEnded == rpc = "rows" /\ rpc' # "rows"

\* the whole-sheet checks follow the row loop, even after row errors
C23_Steps == RowsEnded => rpc' = "logic"

\* a sheet that was read to its end and bears a name twice among its rows
\* other than information rows has the duplicate diagnostic in its log
C23_State ==
    (rpc = "return" /\ Duplicated # {}) =>
        \E i \in 1..Len(reader.logstring) :
            reader.logstring[i].kind = "Duplicate.fieldnames"

\* C23: the whole-sheet checks (logic-check references, skip references,
\* required max-characters, duplicate field names) run for a sheet even when
\* the checks of its rows already recorded errors, and their diagnostics are
\* added to the log of the sheet that has already failed.
C23_WholeSheetChecksAlwaysRun == []C23_State /\ [][C23_Steps]_vars

-----------------------------------------------------------------------------
(* calc: blocks with a second calc: line.  Each block opens with a calc:  *)
(* line, gives a value, may have a later calc: line and ends with a       *)
(* field.                                                                  *)

MaxKindRows == 1

KindBlocks ==
    {[first |-> k1, later |-> k2] :
        k1 \in {"constant", "lookup", "date_offset", "math", "nosuch"},
        k2 \in {"", "constant", "lookup", "date_offset", "query", "nosuch"}}

KindText(b) ==
    "calc: " \o b.first \o "\nvalue: +1d"
    \o (IF b.later = "" THEN "" ELSE "\ncalc: " \o b.later)
    \o "\nfield: f"

KindRow(b) == CalcRow("c", KindText(b))

KindRows == {KindRow(b) : b \in KindBlocks}

NextKind ==
    \/ BeginSheet
    \/ ReadHeader({CorrectHeaders})
    \/ ReadRow(KindRows, MaxKindRows)
    \/ EndRows
    \/ WholeSheetChecks
    \/ Collect

SpecKind == InitSheet /\ [][NextKind]_vars

\* the reader after the row of the block without its later calc: line
FirstKindOnly(b) ==
    process_row(reader, KindRow([b EXCEPT !.later = ""]), Title, row_idx)

C24_Steps ==
    RowRead =>
       \A b \in KindBlocks :
          cur' = KindRow(b) =>
             /\ b.first \notin TenKinds => LinesOfKind("Calculation.invalidType") # {}
             /\ b.first \in TenKinds =>
                   Appended.calculationType = CalcMapping[b.first]
             /\ b.later \in TenKinds =>
                   /\ Appended = FirstKindOnly(b).questionList[Len(reader'.questionList)]
                   /\ reader'.logstring = FirstKindOnly(b).logstring

\* C24: within one calc: block the calculation kind is the one set by the
\* first calc: line: it decides which later keys are accepted and which
\* required-field validation runs, a later calc: line does not change it, and
\* a calc: value outside the ten kinds is an error.
C24_FirstCalcLineDecides == [][C24_Steps]_vars

-----------------------------------------------------------------------------
(* XmlGenerator._generate_logic_check on its own: the expressions are the *)
(* strings of at most MaxExprLen characters over a field character and    *)
(* the characters of the comparison operators.                            *)

MaxExprLen == 3

\* the text before position i of s ends with t
Preceded(s, i, t) == i > Len(t) /\ SubSeq(s, i - Len(t), i - 1) = t

\* the character at position i of s is followed by '='
BeforeEquals(s, i) == i < Len(s) /\ Ch(s, i + 1) = "="

\* re.sub(r"(?<!&lt;)(?<!&gt;)<(?!=)", "&lt;", s): the matches are single
\* characters, and each is judged on s as it was given
RECURSIVE sub_bare_lt(_, _)
sub_bare_lt(s, i) ==
    IF i > Len(s) THEN ""
    ELSE (IF /\ Ch(s, i) = "<"
             /\ ~Preceded(s, i, "&lt;")
             /\ ~Preceded(s, i, "&gt;")
             /\ ~BeforeEquals(s, i)
          THEN "&lt;" ELSE Ch(s, i)) \o sub_bare_lt(s, i + 1)

\* re.sub(r"(?<!&lt;=)(?<!&gt;=)>(?!=)", "&gt;", s)
RECURSIVE sub_bare_gt(_, _)
sub_bare_gt(s, i) ==
    IF i > Len(s) THEN ""
    ELSE (IF /\ Ch(s, i) = ">"
             /\ ~Preceded(s, i, "&lt;=")
             /\ ~Preceded(s, i, "&gt;=")
             /\ ~BeforeEquals(s, i)
          THEN "&gt;" ELSE Ch(s, i)) \o sub_bare_gt(s, i + 1)

\* lines 162-163: the two substitutions of the bare operators
bare_operators(s) == sub_bare_gt(sub_bare_lt(s, 1), 1)

\* lines 158-163 of xml_generator.py
escape_expression(expression) ==
    bare_operators(
        Replace(Replace(Replace(Replace(expression, "!=", "&lt;&gt;"),
                                "<>", "&lt;&gt;"),
                        "<=", "&lt;="),
                ">=", "&gt;="))

\* XmlGenerator._generate_logic_check
generate_logic_check(logic_check) ==
    LET halves == Split1(logic_check, ";")
        expression == escape_expression(Strip(halves[1]))
        message == Strip(halves[2])
        parts == Split(expression, " or ")
    IN  IF Contains(expression, " or ")
        THEN Join([i \in 1..Len(parts) |->
                      "\t\t\t" \o Strip(parts[i])
                      \o (IF i < Len(parts) THEN " or" ELSE "")]
                  \o <<";", "\t\t\t" \o message>>, "\n")
        ELSE "\t\t\t" \o expression \o "; " \o message

ExprAlphabet == {"a", "<", ">", "=", "!"}

Expressions == Strings(ExprAlphabet, MaxExprLen) \ {""}

InitEscape ==
    /\ pc = "generate_logic_check"
    /\ proc = NewProcessor
    /\ wb = <<"t_dd">>
    /\ wsi = 1
    /\ rpc = "idle"
    /\ reader = NewReader
    /\ row_idx = 0
    /\ cur \in {[BaseRow("a") EXCEPT !.LogicCheck = e \o "; 'm'"] : e \in Expressions}

\* line 61 of xml_generator.py: the logic check is written
GenerateLogicCheck ==
    /\ pc = "generate_logic_check"
    /\ proc' = [proc EXCEPT !.out =
                   Append(@, File("logic_check", "", generate_logic_check(cur.LogicCheck)))]
    /\ pc' = "generated"
    /\ UNCHANGED <<wb, wsi, rpc, reader, row_idx, cur>>

NextEscape == GenerateLogicCheck

SpecEscape == InitEscape /\ [][NextEscape]_vars

\* the expression of the logic check given
Expression == Strip(Split1(cur.LogicCheck, ";")[1])

\* the escaped expression written: the text between the indentation and
\* the "; " before the message
EscapedExpression ==
    LET text == proc.out[Len(proc.out)].content
    IN  SubSeq(text, 4, Len(text) - Len("; 'm'"))

\* the expression with each operator replaced once by its escaped form, the
\* two-character operators taken before the bare ones
RECURSIVE EachOperatorOnce(_)
EachOperatorOnce(e) ==
    IF e = "" THEN ""
    ELSE LET two == SubSeq(e, 1, Min({2, Len(e)}))
         IN  IF two \in {"!=", "<>"} THEN "&lt;&gt;" \o EachOperatorOnce(SubSeq(e, 3, Len(e)))
             ELSE IF two = "<=" THEN "&lt;=" \o EachOperatorOnce(SubSeq(e, 3, Len(e)))
             ELSE IF two = ">=" THEN "&gt;=" \o EachOperatorOnce(SubSeq(e, 3, Len(e)))
             ELSE IF Ch(e, 1) = "<" THEN "&lt;" \o EachOperatorOnce(SubSeq(e, 2, Len(e)))
             ELSE IF Ch(e, 1) = ">" THEN "&gt;" \o EachOperatorOnce(SubSeq(e, 2, Len(e)))
             ELSE Ch(e, 1) \o EachOperatorOnce(SubSeq(e, 2, Len(e)))

\* C25: escaping a logic-check expression replaces each operator exactly
\* once by its escaped form (!= and <> by &lt;&gt;, <= by &lt;=, >= by &gt;=,
\* a bare < by &lt;, a bare > by &gt;), the longer operators first, so that
\* no text an earlier replacement produced is altered by a later one, and the
\* step of the bare operators leaves an escaped two-character operator as
\* it is.
C25_EachOperatorOnce ==
    /\ \A op \in {"&lt;&gt;", "&lt;=", "&gt;="} : bare_operators(op) = op
    /\ pc = "generated" => EscapedExpression = EachOperatorOnce(Expression)

\* C30: whatever sequence of the characters <, >, = and ! a logic-check
\* expression holds, operators written next to one another included, the
\* escaped expression written into the logic_check element holds no raw '<'
\* and no raw '>'.
C30_NoRawAngle ==
    pc = "generated" =>
        \A i \in 1..Len(EscapedExpression) : Ch(EscapedExpression, i) \notin {"<", ">"}

-----------------------------------------------------------------------------
(* The skip elements of a document *)

\* XmlGenerator._generate_skip: the attributes of the skip element; raises
\* when a space the slices index is missing (IndexError)
generate_skip(skip, skip_type) ==
    LET len_skip == IF skip_type = "postSkip" THEN 13 ELSE 12
        sp == space_indices(skip)
        fieldname_to_check == SubSeq(skip, len_skip + 1, sp[3] - 1)
        plain == SubSeq(skip, sp[3] + 1, sp[4] - 1)
        condition ==
            IF Len(sp) = 9 THEN "does not contain"
            ELSE IF Contains(skip, "contains") THEN "contains"
            ELSE Replace(Replace(plain, "<", "&lt;"), ">", "&gt;")
        value ==
            IF Len(sp) = 9 THEN SubSeq(skip, sp[6] + 1, sp[7] - 2)
            ELSE SubSeq(skip, sp[4] + 1, sp[5] - 2)
        fieldname_to_skip_to == SubSeq(skip, sp[Len(sp)] + 1, Len(skip))
    IN  IF Len(sp) < 5
        THEN [raises |-> TRUE, fieldname |-> "", condition |-> "", response |-> "",
              skiptofieldname |-> ""]
        ELSE [raises |-> FALSE, fieldname |-> fieldname_to_check,
              condition |-> condition, response |-> value,
              skiptofieldname |-> fieldname_to_skip_to]

\* write_xml, lines 103-116: the skip elements written for q, each with the
\* wrapper it is written in and the skip line it is written from
skips_written(q) ==
    LET skips == SelectSeq(split_lines(q.skip), LAMBDA l : l # "")
        pre == SelectSeq(skips, LAMBDA l : StartsWith(l, "preskip:"))
        post == SelectSeq(skips, LAMBDA l : StartsWith(l, "postskip:"))
    IN  When(q.skip # "",
             [i \in 1..Len(pre) |->
                 [wrapper |-> "preskip", line |-> pre[i],
                  skip |-> generate_skip(pre[i], "preSkip")]]
             \o [i \in 1..Len(post) |->
                 [wrapper |-> "postskip", line |-> post[i],
                  skip |-> generate_skip(post[i], "postSkip")]])

MaxSkipRows == 2

\* the Skip cells of the sheets: each operator, both wrappers, two lines,
\* an empty line between two lines, and the spacing and the prefixes that
\* the skip-syntax check lets through
SkipCells ==
    { "postskip: if q = 1, skip to z",
      "preskip: if q <> 1, skip to z",
      "postskip: if q 'contains' 1, skip to z",
      "postskip: if q does not contain 1, skip to z",
      "postskip: if q < 1, skip to z",
      "preskip: if q >= 1, skip to z",
      "preskip: if q = 1, skip to z\npostskip: if q = 2, skip to z",
      "postskip: if q = 1, skip to z\n\npreskip: if q = 2, skip to z",
      "postskip: if q = contains, skip to z",
      "postskip: if q = 1,skip to z",
      "postskip: if q = 1, skip to z \npreskip: if q = 2, skip to z",
      "postskip: if q = 1,  skip  to z",
      "skip: if q = 1, skip to z",
      "postskip: if q = 1, skip to q",
      "nonsense" }

SkipRows == {[BaseRow("q") EXCEPT !.Skip = c] : c \in SkipCells} \cup {BaseRow("z")}

NextSkip ==
    \/ BeginSheet
    \/ ReadHeader({CorrectHeaders})
    \/ ReadRow(SkipRows, MaxSkipRows)
    \/ EndRows
    \/ WholeSheetChecks
    \/ Collect
    \/ Gate
    \/ EmitDocument

SpecSkip == InitSheet /\ [][NextSkip]_vars

\* the Question list of the document being written
QuestionsWritten == proc.question_list_cache[wsi].qlist

\* the operator of a skip line as the skip-syntax check reads it, escaped
OperatorOf(skip) ==
    LET sp == space_indices(skip)
        condition == SubSeq(skip, sp[3] + 1, sp[4] - 1)
    IN  IF Contains(Split(skip, ",")[1], "does not contain") THEN "does not contain"
        ELSE IF condition = "'contains'" THEN "contains"
        ELSE Replace(Replace(condition, "<", "&lt;"), ">", "&gt;")

\* the comparison value of a skip line: the last word before the comma
ValueOf(skip) ==
    LET logic_tokens == Split(Split(skip, ",")[1], " ")
    IN  logic_tokens[Len(logic_tokens)]

C26_Steps ==
    DocumentWritten =>
        \A i \in 1..Len(QuestionsWritten) :
            LET written == skips_written(QuestionsWritten[i])
            IN  \A k \in 1..Len(written) :
                   /\ ~written[k].skip.raises
                   /\ written[k].skip.fieldname = Checked(written[k].line)
                   /\ written[k].skip.condition = OperatorOf(written[k].line)
                   /\ written[k].skip.response = ValueOf(written[k].line)
                   /\ written[k].skip.skiptofieldname = Target(written[k].line)

\* C26: for every skip line that passed the skip-syntax check and the
\* reference checks, the skip element written carries as fieldname the
\* checked field, as condition the operator of the line (< and > escaped,
\* 'contains' as contains, does not contain as it is), as response the
\* comparison value, and as skiptofieldname the target the reference check
\* judged.
C26_SkipElementMatchesLine == [][C26_Steps]_vars

\* the skip lines of a Question
SkipLinesOf(q) == IF q.skip = "" THEN <<>> ELSE split_lines(q.skip)

C29_Steps ==
    DocumentWritten =>
        \A i \in 1..Len(QuestionsWritten) :
            LET written == skips_written(QuestionsWritten[i])
                lines == SkipLinesOf(QuestionsWritten[i])
            IN  \A l \in {j \in 1..Len(lines) : lines[j] # ""} :
                   Cardinality({k \in 1..Len(written) : written[k].line = lines[l]}) = 1

\* C29: every skip line of a sheet that recorded no error is written as
\* exactly one skip element, inside the preskip or the postskip wrapper of
\* its question: no skip line the skip-syntax check accepted is left out of
\* the document.
C29_EverySkipLineWritten == [][C29_Steps]_vars

\* the position the reference checks use for the question at position p:
\* field_index[cur_field], counted from 1
PositionUsed(p) ==
    field_index(reader.questionList)[reader.questionList[p].fieldName]

C27_Steps ==
    (LogicChecked \/ SkipChecked) =>
        \A p \in 1..Len(reader.questionList) : PositionUsed(p) = p

\* C27: in the whole-sheet reference checks the position used for a question
\* is its own index in the ordered Question list: in every sheet, also one
\* in which several information rows share a field name, the logic checks and
\* the skips of the question at position p are judged against p.
C27_OwnPosition == [][C27_Steps]_vars

\* the names of the documents written so far
DocumentNames == {proc.out[i].name : i \in Documents}

\* C28: in a run without failure the manifest lists exactly the names of the
\* documents written, and these are as many distinct documents as the run
\* has sheets to process, whatever distinct titles ending in _dd or _xml the
\* sheets bear.
C28_ManifestMatchesDocuments ==
    \A m \in Outputs("manifest") :
        ~proc.errorsEncountered =>
            /\ Range(proc.out[m].content) = DocumentNames
            /\ Len(proc.out[m].content) = Len(worksheets(wb))
            /\ Cardinality(DocumentNames) = Len(worksheets(wb))

====
